---------------------------- MODULE Spec2Model ----------------------------
(***************************************************************************)
(* Query side of the Sux4J C runtime: SpookyHash short hash and rehash,    *)
(* the bit-packed accessors, edge derivation, the per-variant lookups      *)
(* (SF, SF3, SF4, MPH, CSF3) and the canonical decoder.                    *)
(*                                                                         *)
(* Machine words.  The source computes on uint64_t (8 bytes of 8 bits).    *)
(* TLC's integers are 32 bits wide, so a word of the model has             *)
(* WordBits = 8 * ByteBits bits: still 8 bytes, each of ByteBits bits.     *)
(* Every 64 of the source is WordBits here, every shift by a multiple of 8 *)
(* is the same multiple of ByteBits, an `int' has IntBits = WordBits / 2   *)
(* bits, and rotation counts are taken modulo WordBits.  All arithmetic    *)
(* wraps at the word width as in C.                                        *)
(*                                                                         *)
(* Undefined behaviour (a read outside an array, __builtin_clzll(0), a     *)
(* shift by a count outside 0 .. WordBits-1) yields a value taken from     *)
(* `env', which the load of a structure chooses.                           *)
(***************************************************************************)
EXTENDS Integers, Sequences, FiniteSets, TLC

VARIABLES
    st,     \* the loaded structure (sf, mph or csf), immutable after load
    keys,   \* the key set the structure was built over (known to the builder only)
    built,  \* the code a CSF3 was built from (known to the builder only)
    env,    \* what the build yields where C leaves the outcome undefined
    call,   \* the last query issued: [fn, key]
    ret,    \* its int64_t result
    dec,    \* the decoder's scan: [pc, value, curr, out]
    fd,     \* the stream the loader read: the fields it held and the fields asked for
    thr,    \* the reader threads: each one's lookup and the memory it has read so far
    app     \* the last call of a helper function on its own: [fn, in, out]

vars == <<st, keys, built, env, call, ret, dec, fd, thr, app>>

-----------------------------------------------------------------------------
(* Bounds of the model *)

ByteBits == 2       \* bits of a byte; a word has 8 bytes
ChunkBits == 1      \* a structure has 2^ChunkBits buckets
MaxVars == 3        \* variables of a bucket of a static function
MaxKeyLen == 1      \* length of the short byte-string keys
MaxU64Key == 2      \* integer keys are 0 .. MaxU64Key
NumImages == 2      \* memory images the backing array is drawn from
MaxSeed == 1        \* global seeds are 0 .. MaxSeed
MaxMphKeys == 12     \* a minimal perfect hash is built over the keys 0 .. n-1, n <= MaxMphKeys
NumVariants == 2    \* solutions of a bucket's system the builder may have stored
NumReaders == 2     \* threads that look keys up in the same structure at once
ArrayWords == 3     \* words of the arrays the accessors are called on
MaxRank == 240      \* base ranks of a bucket are 0 .. MaxRank
MaxCount == 4       \* a bucket holds 0 .. MaxCount keys
MaxMessage == 70    \* hashed messages have 0 .. MaxMessage bytes

WordBits == 8 * ByteBits
IntBits == WordBits \div 2

-----------------------------------------------------------------------------
(* uint64_t, int and int64_t arithmetic *)

Pow2(n) == 2 ^ n

\* a local variable of the source: F with its parameter bound to the value
\* of v, computed once and before F
With(v, F(_)) == CHOOSE r \in { F(x) : x \in {v} } : TRUE
WordMod == Pow2(WordBits)
WordMask == WordMod - 1
Words == 0 .. WordMask

U64(x) == x % WordMod
ToInt64(x) == IF U64(x) >= Pow2(WordBits - 1) THEN U64(x) - WordMod ELSE U64(x)
ToInt(x) ==
    IF x % Pow2(IntBits) >= Pow2(IntBits - 1)
    THEN (x % Pow2(IntBits)) - Pow2(IntBits)
    ELSE x % Pow2(IntBits)
ToUInt(x) == x % Pow2(IntBits)

\* bitwise operations, four bits at a time from tables computed once
RECURSIVE XorBits(_, _, _)
XorBits(a, b, n) ==
    IF n = 0 THEN 0
    ELSE ((a + b) % 2) + 2 * XorBits(a \div 2, b \div 2, n - 1)
RECURSIVE AndBits(_, _, _)
AndBits(a, b, n) ==
    IF n = 0 THEN 0
    ELSE ((a % 2) * (b % 2)) + 2 * AndBits(a \div 2, b \div 2, n - 1)
XorTable == [a \in 0 .. 15 |-> [b \in 0 .. 15 |-> XorBits(a, b, 4)]]
AndTable == [a \in 0 .. 15 |-> [b \in 0 .. 15 |-> AndBits(a, b, 4)]]
RECURSIVE XorN(_, _)
XorN(a, b) ==
    IF a = 0 THEN b ELSE IF b = 0 THEN a
    ELSE XorTable[a % 16][b % 16] + 16 * XorN(a \div 16, b \div 16)
RECURSIVE AndN(_, _)
AndN(a, b) ==
    IF a = 0 \/ b = 0 THEN 0
    ELSE AndTable[a % 16][b % 16] + 16 * AndN(a \div 16, b \div 16)

Xor(a, b) == XorN(a, b)
And(a, b) == AndN(a, b)
Or(a, b) == a + b - And(a, b)
Not(a) == WordMask - a
Add(a, b) == (a + b) % WordMod
Sub(a, b) == (a - b) % WordMod

\* the double-word product a * b as <<high word, low word>>, computed on
\* half words so that no intermediate value leaves TLC's integer range
Half == Pow2(IntBits)
Product(a, b) ==
    With((a \div Half) * (b % Half) + (a % Half) * (b \div Half), LAMBDA mid :
    With((a % Half) * (b % Half) + (mid % Half) * Half, LAMBDA low :
         <<(a \div Half) * (b \div Half) + mid \div Half + low \div WordMod,
           low % WordMod>>))
Mul(a, b) == Product(a, b)[2]
\* a fixed-point mapping that rounds up instead of down
MulHighRoundedUp(a, b) == Product(a, b)[1] + (IF Product(a, b)[2] = 0 THEN 0 ELSE 1)
\* ((__uint128_t) a * (__uint128_t) b) >> 64
MulHigh(a, b) == Product(a, b)[1]

\* x << k and x >> k on a word; a count outside 0 .. WordBits-1 is undefined
Shl(x, k) ==
    IF k \in 0 .. WordBits - 1 THEN (x % Pow2(WordBits - k)) * Pow2(k)
    ELSE env.junk
Shr(x, k) ==
    IF k \in 0 .. WordBits - 1 THEN x \div Pow2(k)
    ELSE env.junk

\* a C array is held as a function on 0 .. n-1
Length(array) == Cardinality(DOMAIN array)
Rd(array, i) == IF i \in DOMAIN array THEN array[i] ELSE env.junk

RECURSIVE LeadingZeros(_, _)
LeadingZeros(x, n) ==
    IF n = 0 \/ x >= Pow2(n - 1) THEN 0 ELSE 1 + LeadingZeros(x, n - 1)

\* __builtin_clzll(x), x converted to unsigned long long
clzll(x) == IF U64(x) = 0 THEN env.clz0 ELSE LeadingZeros(U64(x), WordBits)

-----------------------------------------------------------------------------
(* spooky.c *)

\* 0x9e3779b97f4a7c13, least significant byte first
SC_CONST_BYTES == <<19, 124, 74, 127, 185, 121, 55, 158>>

RECURSIVE LeValue(_, _)
LeValue(bytes, n) ==
    IF n = 0 THEN 0 ELSE LeValue(bytes, n - 1) + bytes[n] * Pow2(8 * (n - 1))

\* SC_CONST reduced to the word of the model (its three low bytes suffice)
SC_CONST == LeValue(SC_CONST_BYTES, 3) % WordMod

ROTL64(x, k) ==
    IF k % WordBits = 0 THEN x
    ELSE Or(Shl(x, k % WordBits), Shr(x, WordBits - (k % WordBits)))

\* p8[i] of a message held as a sequence of bytes
Byte(message, i) ==
    IF i >= 0 /\ i < Len(message) THEN message[i + 1] ELSE env.junk % Pow2(ByteBits)

\* (uint64_t) p[i] << 8 * i
ByteAt(message, at, i) == Shl(Byte(message, at + i), i * ByteBits)

spooky_read_le64(message, at) ==
    Or(Or(Or(ByteAt(message, at, 0), ByteAt(message, at, 1)),
          Or(ByteAt(message, at, 2), ByteAt(message, at, 3))),
       Or(Or(ByteAt(message, at, 4), ByteAt(message, at, 5)),
          Or(ByteAt(message, at, 6), ByteAt(message, at, 7))))

\* h[a] = ROTL64(h[a], r);  h[a] += h[b];  h[c] ^= h[a];
MixRound(h, a, r, b, c) ==
    With(Add(ROTL64(h[a], r), h[b]), LAMBDA ha :
         [h EXCEPT ![a] = ha, ![c] = Xor(h[c], ha)])

\* the lines of spooky_short_mix, each as <<a, r, b, c>>
MixLines ==
    << <<2, 50, 3, 0>>, <<3, 52, 0, 1>>, <<0, 30, 1, 2>>, <<1, 41, 2, 3>>,
       <<2, 54, 3, 0>>, <<3, 48, 0, 1>>, <<0, 38, 1, 2>>, <<1, 37, 2, 3>>,
       <<2, 62, 3, 0>>, <<3, 34, 0, 1>>, <<0, 5, 1, 2>>, <<1, 36, 2, 3>> >>

MixLine(h, l) == MixRound(h, l[1], l[2], l[3], l[4])

\* h after the lines lo .. hi, taken in order: first lo .. mid, then the rest
RECURSIVE MixLinesOn(_, _, _)
MixLinesOn(h, lo, hi) ==
    IF lo = hi THEN MixLine(h, MixLines[lo])
    ELSE With(MixLinesOn(h, lo, (lo + hi) \div 2),
              LAMBDA g : MixLinesOn(g, (lo + hi) \div 2 + 1, hi))

spooky_short_mix(h) == MixLinesOn(h, 1, Len(MixLines))

\* h[a] ^= h[b];  h[b] = ROTL64(h[b], r);  h[a] += h[b];
EndRound(h, a, b, r) ==
    With(ROTL64(h[b], r), LAMBDA hb :
         [h EXCEPT ![b] = hb, ![a] = Add(Xor(h[a], h[b]), hb)])

\* the lines of spooky_short_end, each as <<a, b, r>>
EndLines ==
    << <<3, 2, 15>>, <<0, 3, 52>>, <<1, 0, 26>>, <<2, 1, 51>>,
       <<3, 2, 28>>, <<0, 3, 9>>, <<1, 0, 47>>, <<2, 1, 54>>,
       <<3, 2, 32>>, <<0, 3, 25>>, <<1, 0, 63>> >>

EndLine(h, l) == EndRound(h, l[1], l[2], l[3])

RECURSIVE EndLinesOn(_, _, _)
EndLinesOn(h, lo, hi) ==
    IF lo = hi THEN EndLine(h, EndLines[lo])
    ELSE With(EndLinesOn(h, lo, (lo + hi) \div 2),
              LAMBDA g : EndLinesOn(g, (lo + hi) \div 2 + 1, hi))

spooky_short_end(h) == EndLinesOn(h, 1, Len(EndLines))

Lanes(a, b, c, d) == [i \in 0 .. 3 |-> CASE i = 0 -> a [] i = 1 -> b [] i = 2 -> c [] OTHER -> d]

\* a rehash that feeds the fourth lane into the seed
spooky_short_rehash_four_lanes(triple, seed) ==
    spooky_short_mix(Lanes(Add(seed, triple[3]), Add(SC_CONST, triple[0]),
                           Add(SC_CONST, triple[1]), Add(SC_CONST, triple[2])))

spooky_short_rehash(triple, seed) ==
    spooky_short_mix(Lanes(seed, Add(SC_CONST, triple[0]),
                           Add(SC_CONST, triple[1]), Add(SC_CONST, triple[2])))

\* the loop over complete sets of 32 bytes; `at' is u.p8 - message
\* h[i] += x
AddTo(h, i, x) == [h EXCEPT ![i] = Add(h[i], x)]

\* h[2] += read(p64[0]);  h[3] += read(p64[1]);  spooky_short_mix(h);
Absorb16(h, message, at) ==
    spooky_short_mix(AddTo(AddTo(h, 2, spooky_read_le64(message, at)),
                           3, spooky_read_le64(message, at + 8)))

RECURSIVE ShortBlocks(_, _, _, _)
ShortBlocks(h, message, at, end) ==
    IF at < end
    THEN ShortBlocks(AddTo(AddTo(Absorb16(h, message, at),
                                 0, spooky_read_le64(message, at + 16)),
                           1, spooky_read_le64(message, at + 24)),
                     message, at + 32, end)
    ELSE h

\* the switch on the last 0..15 bytes, with its fall-through
RECURSIVE ShortTail(_, _, _, _)
ShortTail(h, message, at, left) ==
    LET b(i) == Byte(message, at + i)
        add3(x) == AddTo(h, 3, x)
        add2(x) == AddTo(h, 2, x)
    IN CASE left = 15 -> ShortTail(add3(Shl(b(14), 6 * ByteBits)), message, at, 14)
         [] left = 14 -> ShortTail(add3(Shl(b(13), 5 * ByteBits)), message, at, 13)
         [] left = 13 -> ShortTail(add3(Shl(b(12), 4 * ByteBits)), message, at, 12)
         [] left = 12 -> ShortTail(add3(Shl(b(11), 3 * ByteBits)), message, at, 11)
         [] left = 11 -> ShortTail(add3(Shl(b(10), 2 * ByteBits)), message, at, 10)
         [] left = 10 -> ShortTail(add3(Shl(b(9), ByteBits)), message, at, 9)
         [] left = 9 -> ShortTail(add3(b(8)), message, at, 8)
         [] left = 8 -> add2(spooky_read_le64(message, at))
         [] left = 7 -> ShortTail(add2(Shl(b(6), 6 * ByteBits)), message, at, 6)
         [] left = 6 -> ShortTail(add2(Shl(b(5), 5 * ByteBits)), message, at, 5)
         [] left = 5 -> ShortTail(add2(Shl(b(4), 4 * ByteBits)), message, at, 4)
         [] left = 4 -> ShortTail(add2(Shl(b(3), 3 * ByteBits)), message, at, 3)
         [] left = 3 -> ShortTail(add2(Shl(b(2), 2 * ByteBits)), message, at, 2)
         [] left = 2 -> ShortTail(add2(Shl(b(1), ByteBits)), message, at, 1)
         [] left = 1 -> add2(b(0))
         [] OTHER -> AddTo(AddTo(h, 2, SC_CONST), 3, SC_CONST)

\* where the loop over the sets of 32 bytes ends
BlocksEnd(length) == (length \div 32) * 32
\* the case of 16+ remaining bytes is taken
Remaining16(length) == length > 15 /\ (length % 32) >= 16
\* a tail that starts where the loop ended, the 16 absorbed bytes not skipped
TailAtBlocksEnd(length) == IF length > 15 THEN BlocksEnd(length) ELSE 0

\* u.p8 - message and `left' at the switch
TailAt(length) ==
    IF length > 15
    THEN (IF Remaining16(length) THEN BlocksEnd(length) + 16 ELSE BlocksEnd(length))
    ELSE 0
TailLeft(length) == IF Remaining16(length) THEN (length % 32) - 16 ELSE length % 32

spooky_short(message, length, seed) ==
    With(Lanes(seed, seed, SC_CONST, SC_CONST), LAMBDA h0 :
    With(IF length > 15 THEN ShortBlocks(h0, message, 0, BlocksEnd(length)) ELSE h0,
         LAMBDA h1 :
    With(IF Remaining16(length) THEN Absorb16(h1, message, BlocksEnd(length)) ELSE h1,
         LAMBDA h2 :
         spooky_short_end(AddTo(ShortTail(h2, message, TailAt(length), TailLeft(length)),
                                0, U64(length * ByteBits))))))


\* the indices of the message bytes that spooky_read_le64(&u.p64[k]) reads,
\* `at' being the index of the first
Le64Reads(at) == [i \in 1 .. 8 |-> at + i - 1]

\* the reads of the loop over the sets of 32 bytes, in order
RECURSIVE BlockReads(_, _)
BlockReads(at, end) ==
    IF at < end
    THEN Le64Reads(at) \o Le64Reads(at + 8) \o Le64Reads(at + 16) \o Le64Reads(at + 24)
             \o BlockReads(at + 32, end)
    ELSE <<>>

\* the reads of the switch on the last 0..15 bytes, with its fall-through
RECURSIVE TailReads(_, _)
TailReads(at, left) ==
    CASE left = 15 -> <<at + 14>> \o TailReads(at, 14)
      [] left = 14 -> <<at + 13>> \o TailReads(at, 13)
      [] left = 13 -> <<at + 12>> \o TailReads(at, 12)
      [] left = 12 -> <<at + 11>> \o TailReads(at, 11)
      [] left = 11 -> <<at + 10>> \o TailReads(at, 10)
      [] left = 10 -> <<at + 9>> \o TailReads(at, 9)
      [] left = 9 -> <<at + 8>> \o TailReads(at, 8)
      [] left = 8 -> Le64Reads(at)
      [] left = 7 -> <<at + 6>> \o TailReads(at, 6)
      [] left = 6 -> <<at + 5>> \o TailReads(at, 5)
      [] left = 5 -> <<at + 4>> \o TailReads(at, 4)
      [] left = 4 -> <<at + 3>> \o TailReads(at, 3)
      [] left = 3 -> <<at + 2>> \o TailReads(at, 2)
      [] left = 2 -> <<at + 1>> \o TailReads(at, 1)
      [] left = 1 -> <<at>>
      [] OTHER -> <<>>

\* the indices of the message bytes spooky_short reads, in the order it reads them
SpookyReads(length) ==
    (IF length > 15 THEN BlockReads(0, BlocksEnd(length)) ELSE <<>>)
        \o (IF Remaining16(length)
            THEN Le64Reads(BlocksEnd(length)) \o Le64Reads(BlocksEnd(length) + 8)
            ELSE <<>>)
        \o TailReads(TailAt(length), TailLeft(length))

\* the bytes of a uint64_t object in memory (the platform is little-endian)
\* the bytes of a key in a memory that stores the high byte first
KeyBytesHighFirst(key) ==
    [i \in 1 .. 8 |-> (key \div Pow2(ByteBits * (8 - i))) % Pow2(ByteBits)]

KeyBytes(key) == [i \in 1 .. 8 |-> (key \div Pow2(ByteBits * (i - 1))) % Pow2(ByteBits)]

-----------------------------------------------------------------------------
(* sf.c, sf3.c, sf4.c: static functions of width `width' *)

\* bits of an offset_and_seed entry that hold the seed (8 of 64 in the source)
SeedBits == ByteBits

\* UINT64_C(-1) >> 8
OFFSET_MASK == Shr(WordMask, SeedBits)

\* sf.c
triple_to_equation(triple, seed, num_variables) ==
    With(spooky_short_rehash(triple, seed), LAMBDA hash :
    With(clzll(num_variables), LAMBDA shift :
    With(Sub(Shl(1, shift), 1), LAMBDA mask :
       [i \in 0 .. 2 |->
           ToInt(Shr(Mul(And(hash[i], mask), U64(num_variables)), shift))])))

\* sf3.c: e is unsigned int
sf3_signature_to_equation(signature, seed, num_variables) ==
    With(spooky_short_rehash(signature, seed), LAMBDA hash :
    With(clzll(num_variables), LAMBDA shift :
    With(Sub(Shl(1, shift), 1), LAMBDA mask :
       [i \in 0 .. 2 |->
           ToUInt(Shr(Mul(And(hash[i], mask), U64(num_variables)), shift))])))

\* four endpoints taken with the mask (1 << shift + 1) - 1, one bit too wide
sf4_signature_to_equation_wide_mask(signature, seed, num_variables) ==
    With(spooky_short_rehash(signature, seed), LAMBDA hash :
    With(clzll(num_variables), LAMBDA shift :
    With(Sub(Shl(1, shift + 1), 1), LAMBDA mask :
       [i \in 0 .. 3 |->
           ToInt(Shr(Mul(And(hash[i], mask), U64(num_variables)), shift))])))

\* sf4.c: four endpoints
sf4_signature_to_equation(signature, seed, num_variables) ==
    With(spooky_short_rehash(signature, seed), LAMBDA hash :
    With(clzll(num_variables), LAMBDA shift :
    With(Sub(Shl(1, shift), 1), LAMBDA mask :
       [i \in 0 .. 3 |->
           ToInt(Shr(Mul(And(hash[i], mask), U64(num_variables)), shift))])))

\* a reader that takes pos for a bit position: it omits pos *= width
get_value_unscaled(array, pos, width) ==
    With(WordBits - width, LAMBDA l :
    With(ToInt(pos \div WordBits), LAMBDA start_word :
    With(ToInt(pos % WordBits), LAMBDA start_bit :
       IF start_bit <= l
       THEN Shr(Shl(Rd(array, start_word), l - start_bit), l)
       ELSE Or(Shr(Rd(array, start_word), start_bit),
               Shr(Shl(Rd(array, start_word + 1), WordBits + l - start_bit), l)))))

\* a reader that takes the high part of a straddling value from two words on
get_value_far(array, pos, width) ==
    With(Mul(pos, width), LAMBDA p :
    With(WordBits - width, LAMBDA l :
    With(ToInt(p \div WordBits), LAMBDA start_word :
    With(ToInt(p % WordBits), LAMBDA start_bit :
       IF start_bit <= l
       THEN Shr(Shl(Rd(array, start_word), l - start_bit), l)
       ELSE Or(Shr(Rd(array, start_word), start_bit),
               Shr(Shl(Rd(array, start_word + 2), WordBits + l - start_bit), l))))))

\* sf.c, sf3.c, sf4.c: the width-bit value at unit position pos
get_value(array, pos, width) ==
    With(Mul(pos, width), LAMBDA p :
    With(WordBits - width, LAMBDA l :
    With(ToInt(p \div WordBits), LAMBDA start_word :
    With(ToInt(p % WordBits), LAMBDA start_bit :
       IF start_bit <= l
       THEN Shr(Shl(Rd(array, start_word), l - start_bit), l)
       ELSE Or(Shr(Rd(array, start_word), start_bit),
               Shr(Shl(Rd(array, start_word + 1), WordBits + l - start_bit), l))))))

\* sf.c: shift discipline, absent chunk
get_byte_array(sf, key, len) ==
    With(spooky_short(key, len, sf.global_seed), LAMBDA h :
    With(ToInt(Shr(h[0], sf.chunk_shift)), LAMBDA chunk :
    With(Rd(sf.offset_and_seed, chunk), LAMBDA offset_seed :
    With(And(offset_seed, OFFSET_MASK), LAMBDA chunk_offset :
    With(ToInt(Sub(And(Rd(sf.offset_and_seed, chunk + 1), OFFSET_MASK), chunk_offset)),
         LAMBDA num_variables :
       IF num_variables = 0 THEN -1
       ELSE
    With(triple_to_equation(h, And(offset_seed, Not(OFFSET_MASK)), num_variables),
         LAMBDA e :
       ToInt64(Xor(Xor(get_value(sf.array, U64(e[0] + chunk_offset), sf.width),
                       get_value(sf.array, U64(e[1] + chunk_offset), sf.width)),
                   get_value(sf.array, U64(e[2] + chunk_offset), sf.width)))))))))

\* an integer lookup that has no answer for an absent chunk
get_uint64_t_unchecked(sf, key) ==
    With(spooky_short(KeyBytes(key), 8, sf.global_seed), LAMBDA h :
    With(ToInt(Shr(h[0], sf.chunk_shift)), LAMBDA chunk :
    With(Rd(sf.offset_and_seed, chunk), LAMBDA offset_seed :
    With(And(offset_seed, OFFSET_MASK), LAMBDA chunk_offset :
    With(ToInt(Sub(And(Rd(sf.offset_and_seed, chunk + 1), OFFSET_MASK), chunk_offset)),
         LAMBDA num_variables :
    With(triple_to_equation(h, And(offset_seed, Not(OFFSET_MASK)), num_variables),
         LAMBDA e :
       ToInt64(Xor(Xor(get_value(sf.array, U64(e[0] + chunk_offset), sf.width),
                       get_value(sf.array, U64(e[1] + chunk_offset), sf.width)),
                   get_value(sf.array, U64(e[2] + chunk_offset), sf.width)))))))))

get_uint64_t(sf, key) ==
    With(spooky_short(KeyBytes(key), 8, sf.global_seed), LAMBDA h :
    With(ToInt(Shr(h[0], sf.chunk_shift)), LAMBDA chunk :
    With(Rd(sf.offset_and_seed, chunk), LAMBDA offset_seed :
    With(And(offset_seed, OFFSET_MASK), LAMBDA chunk_offset :
    With(ToInt(Sub(And(Rd(sf.offset_and_seed, chunk + 1), OFFSET_MASK), chunk_offset)),
         LAMBDA num_variables :
       IF num_variables = 0 THEN -1
       ELSE
    With(triple_to_equation(h, And(offset_seed, Not(OFFSET_MASK)), num_variables),
         LAMBDA e :
       ToInt64(Xor(Xor(get_value(sf.array, U64(e[0] + chunk_offset), sf.width),
                       get_value(sf.array, U64(e[1] + chunk_offset), sf.width)),
                   get_value(sf.array, U64(e[2] + chunk_offset), sf.width)))))))))

\* sf3.c (general path)
sf3_get_byte_array(sf, key, len) ==
    With(spooky_short(key, len, sf.global_seed), LAMBDA signature :
    With(ToInt(MulHigh(Shr(signature[0], 1), sf.multiplier)), LAMBDA bucket :
    With(Rd(sf.offset_and_seed, bucket), LAMBDA offset_seed :
    With(And(offset_seed, OFFSET_MASK), LAMBDA bucket_offset :
    With(ToInt(Sub(And(Rd(sf.offset_and_seed, bucket + 1), OFFSET_MASK), bucket_offset)),
         LAMBDA num_variables :
    With(sf3_signature_to_equation(signature, And(offset_seed, Not(OFFSET_MASK)),
             num_variables),
         LAMBDA e :
       ToInt64(Xor(Xor(get_value(sf.array, U64(e[0] + bucket_offset), sf.width),
                       get_value(sf.array, U64(e[1] + bucket_offset), sf.width)),
                   get_value(sf.array, U64(e[2] + bucket_offset), sf.width)))))))))

sf3_get_uint64_t(sf, key) ==
    With(spooky_short(KeyBytes(key), 8, sf.global_seed), LAMBDA signature :
    With(ToInt(MulHigh(Shr(signature[0], 1), sf.multiplier)), LAMBDA bucket :
    With(Rd(sf.offset_and_seed, bucket), LAMBDA offset_seed :
    With(And(offset_seed, OFFSET_MASK), LAMBDA bucket_offset :
    With(ToInt(Sub(And(Rd(sf.offset_and_seed, bucket + 1), OFFSET_MASK), bucket_offset)),
         LAMBDA num_variables :
    With(sf3_signature_to_equation(signature, And(offset_seed, Not(OFFSET_MASK)),
             num_variables),
         LAMBDA e :
       ToInt64(Xor(Xor(get_value(sf.array, U64(e[0] + bucket_offset), sf.width),
                       get_value(sf.array, U64(e[1] + bucket_offset), sf.width)),
                   get_value(sf.array, U64(e[2] + bucket_offset), sf.width)))))))))

\* a signature lookup that maps the whole first lane to the bucket
sf3_get_signature_whole_lane(sf, signature) ==
    With(ToInt(MulHigh(signature[0], sf.multiplier)), LAMBDA bucket :
    With(Rd(sf.offset_and_seed, bucket), LAMBDA offset_seed :
    With(And(offset_seed, OFFSET_MASK), LAMBDA bucket_offset :
    With(ToInt(Sub(And(Rd(sf.offset_and_seed, bucket + 1), OFFSET_MASK), bucket_offset)),
         LAMBDA num_variables :
    With(sf3_signature_to_equation(signature, And(offset_seed, Not(OFFSET_MASK)),
             num_variables),
         LAMBDA e :
       ToInt64(Xor(Xor(get_value(sf.array, U64(e[0] + bucket_offset), sf.width),
                       get_value(sf.array, U64(e[1] + bucket_offset), sf.width)),
                   get_value(sf.array, U64(e[2] + bucket_offset), sf.width))))))))

sf3_get_signature(sf, signature) ==
    With(ToInt(MulHigh(Shr(signature[0], 1), sf.multiplier)), LAMBDA bucket :
    With(Rd(sf.offset_and_seed, bucket), LAMBDA offset_seed :
    With(And(offset_seed, OFFSET_MASK), LAMBDA bucket_offset :
    With(ToInt(Sub(And(Rd(sf.offset_and_seed, bucket + 1), OFFSET_MASK), bucket_offset)),
         LAMBDA num_variables :
    With(sf3_signature_to_equation(signature, And(offset_seed, Not(OFFSET_MASK)),
             num_variables),
         LAMBDA e :
       ToInt64(Xor(Xor(get_value(sf.array, U64(e[0] + bucket_offset), sf.width),
                       get_value(sf.array, U64(e[1] + bucket_offset), sf.width)),
                   get_value(sf.array, U64(e[2] + bucket_offset), sf.width))))))))

\* sf3.c built with SF_8: the array seen through a uint8_t pointer.  Byte k of
\* the memory of the array is byte k % 8 of word k / 8, the low byte first.
ArrayByte(array, k) == KeyBytes(Rd(array, k \div 8))[(k % 8) + 1]

\* the same memory with the high byte of each word first
ArrayByteHighFirst(array, k) == KeyBytesHighFirst(Rd(array, k \div 8))[(k % 8) + 1]

\* the SF_8 lookup on a memory that stores the high byte first
sf3_get_signature_SF_8_high_first(sf, signature) ==
    With(ToInt(MulHigh(Shr(signature[0], 1), sf.multiplier)), LAMBDA bucket :
    With(Rd(sf.offset_and_seed, bucket), LAMBDA offset_seed :
    With(And(offset_seed, OFFSET_MASK), LAMBDA bucket_offset :
    With(ToInt(Sub(And(Rd(sf.offset_and_seed, bucket + 1), OFFSET_MASK), bucket_offset)),
         LAMBDA num_variables :
    With(sf3_signature_to_equation(signature, And(offset_seed, Not(OFFSET_MASK)),
             num_variables),
         LAMBDA e :
       ToInt64(Xor(Xor(ArrayByteHighFirst(sf.array, bucket_offset + e[0]),
                       ArrayByteHighFirst(sf.array, bucket_offset + e[1])),
                   ArrayByteHighFirst(sf.array, bucket_offset + e[2]))))))))

\* const uint8_t *p = (uint8_t *)sf->array + bucket_offset;
\* return p[e[0]] ^ p[e[1]] ^ p[e[2]];
sf3_get_signature_SF_8(sf, signature) ==
    With(ToInt(MulHigh(Shr(signature[0], 1), sf.multiplier)), LAMBDA bucket :
    With(Rd(sf.offset_and_seed, bucket), LAMBDA offset_seed :
    With(And(offset_seed, OFFSET_MASK), LAMBDA bucket_offset :
    With(ToInt(Sub(And(Rd(sf.offset_and_seed, bucket + 1), OFFSET_MASK), bucket_offset)),
         LAMBDA num_variables :
    With(sf3_signature_to_equation(signature, And(offset_seed, Not(OFFSET_MASK)),
             num_variables),
         LAMBDA e :
       ToInt64(Xor(Xor(ArrayByte(sf.array, bucket_offset + e[0]),
                       ArrayByte(sf.array, bucket_offset + e[1])),
                   ArrayByte(sf.array, bucket_offset + e[2]))))))))

\* the two other lookups hash the key and go on as sf3_get_signature does
sf3_get_byte_array_SF_8(sf, key, len) ==
    sf3_get_signature_SF_8(sf, spooky_short(key, len, sf.global_seed))

sf3_get_uint64_t_SF_8(sf, key) ==
    sf3_get_signature_SF_8(sf, spooky_short(KeyBytes(key), 8, sf.global_seed))

\* sf4.c
sf4_get_byte_array(sf, key, len) ==
    With(spooky_short(key, len, sf.global_seed), LAMBDA signature :
    With(ToInt(MulHigh(Shr(signature[0], 1), sf.multiplier)), LAMBDA bucket :
    With(Rd(sf.offset_and_seed, bucket), LAMBDA offset_seed :
    With(And(offset_seed, OFFSET_MASK), LAMBDA bucket_offset :
    With(ToInt(Sub(And(Rd(sf.offset_and_seed, bucket + 1), OFFSET_MASK), bucket_offset)),
         LAMBDA num_variables :
    With(sf4_signature_to_equation(signature, And(offset_seed, Not(OFFSET_MASK)),
             num_variables),
         LAMBDA e :
       ToInt64(Xor(Xor(get_value(sf.array, U64(e[0] + bucket_offset), sf.width),
                       get_value(sf.array, U64(e[1] + bucket_offset), sf.width)),
                   Xor(get_value(sf.array, U64(e[2] + bucket_offset), sf.width),
                       get_value(sf.array, U64(e[3] + bucket_offset), sf.width))))))))))

sf4_get_uint64_t(sf, key) ==
    With(spooky_short(KeyBytes(key), 8, sf.global_seed), LAMBDA signature :
    With(ToInt(MulHigh(Shr(signature[0], 1), sf.multiplier)), LAMBDA bucket :
    With(Rd(sf.offset_and_seed, bucket), LAMBDA offset_seed :
    With(And(offset_seed, OFFSET_MASK), LAMBDA bucket_offset :
    With(ToInt(Sub(And(Rd(sf.offset_and_seed, bucket + 1), OFFSET_MASK), bucket_offset)),
         LAMBDA num_variables :
    With(sf4_signature_to_equation(signature, And(offset_seed, Not(OFFSET_MASK)),
             num_variables),
         LAMBDA e :
       ToInt64(Xor(Xor(get_value(sf.array, U64(e[0] + bucket_offset), sf.width),
                       get_value(sf.array, U64(e[1] + bucket_offset), sf.width)),
                   Xor(get_value(sf.array, U64(e[2] + bucket_offset), sf.width),
                       get_value(sf.array, U64(e[3] + bucket_offset), sf.width))))))))))

sf4_get_signature(sf, signature) ==
    With(ToInt(MulHigh(Shr(signature[0], 1), sf.multiplier)), LAMBDA bucket :
    With(Rd(sf.offset_and_seed, bucket), LAMBDA offset_seed :
    With(And(offset_seed, OFFSET_MASK), LAMBDA bucket_offset :
    With(ToInt(Sub(And(Rd(sf.offset_and_seed, bucket + 1), OFFSET_MASK), bucket_offset)),
         LAMBDA num_variables :
    With(sf4_signature_to_equation(signature, And(offset_seed, Not(OFFSET_MASK)),
             num_variables),
         LAMBDA e :
       ToInt64(Xor(Xor(get_value(sf.array, U64(e[0] + bucket_offset), sf.width),
                       get_value(sf.array, U64(e[1] + bucket_offset), sf.width)),
                   Xor(get_value(sf.array, U64(e[2] + bucket_offset), sf.width),
                       get_value(sf.array, U64(e[3] + bucket_offset), sf.width)))))))))

-----------------------------------------------------------------------------
(* mph.c: minimal perfect hash *)

\* __builtin_popcountll, four bits at a time
RECURSIVE PopBits(_)
PopBits(x) == IF x = 0 THEN 0 ELSE (x % 2) + PopBits(x \div 2)
PopTable == [a \in 0 .. 15 |-> PopBits(a)]
RECURSIVE PopCount(_)
PopCount(x) == IF x = 0 THEN 0 ELSE PopTable[x % 16] + PopCount(x \div 16)

\* 2-bit pairs of a word (32 in the source)
PairsPerWord == WordBits \div 2
\* 0x5555555555555555
PairMask == WordMask \div 3

\* a count of the pairs whose low bit is set: it misses the pairs of value 2
_count_low_bits(x) == PopCount(And(x, PairMask))

_count_nonzero_pairs(x) == PopCount(And(Or(x, Shr(x, 1)), PairMask))

\* while(block < end_block) pairs += _count_nonzero_pairs(array[block++]);
RECURSIVE CountWholeWords(_, _, _)
CountWholeWords(array, block, end_block) ==
    IF block < end_block
    THEN _count_nonzero_pairs(Rd(array, block)) + CountWholeWords(array, block + 1, end_block)
    ELSE 0

\* a count that takes the whole of the last word
count_nonzero_pairs_whole_last(start, end, array) ==
    With(ToInt(start \div PairsPerWord), LAMBDA block :
    With(ToInt(end \div PairsPerWord), LAMBDA end_block :
    With(ToInt(start % PairsPerWord), LAMBDA start_offset :
    With(ToInt(end % PairsPerWord), LAMBDA end_offset :
    With(IF start_offset # 0
             THEN _count_nonzero_pairs(Shr(Rd(array, block), start_offset * 2))
             ELSE 0,
         LAMBDA first :
    With(IF start_offset # 0 THEN block + 1 ELSE block, LAMBDA block1 :
    With(IF block1 < end_block THEN end_block ELSE block1, LAMBDA block2 :
    With(IF end_offset # 0
             THEN _count_nonzero_pairs(Rd(array, block2))
             ELSE 0,
         LAMBDA last :
       IF block = end_block
       THEN _count_nonzero_pairs(
                Shr(And(Rd(array, block), Sub(Shl(1, end_offset * 2), 1)),
                    start_offset * 2))
       ELSE U64(first + CountWholeWords(array, block1, end_block) + last)))))))))

count_nonzero_pairs(start, end, array) ==
    With(ToInt(start \div PairsPerWord), LAMBDA block :
    With(ToInt(end \div PairsPerWord), LAMBDA end_block :
    With(ToInt(start % PairsPerWord), LAMBDA start_offset :
    With(ToInt(end % PairsPerWord), LAMBDA end_offset :
    With(IF start_offset # 0
             THEN _count_nonzero_pairs(Shr(Rd(array, block), start_offset * 2))
             ELSE 0,
         LAMBDA first :
    With(IF start_offset # 0 THEN block + 1 ELSE block, LAMBDA block1 :
    With(IF block1 < end_block THEN end_block ELSE block1, LAMBDA block2 :
    With(IF end_offset # 0
             THEN _count_nonzero_pairs(
             And(Rd(array, block2), Sub(Shl(1, end_offset * 2), 1)))
             ELSE 0,
         LAMBDA last :
       IF block = end_block
       THEN _count_nonzero_pairs(
                Shr(And(Rd(array, block), Sub(Shl(1, end_offset * 2), 1)),
                    start_offset * 2))
       ELSE U64(first + CountWholeWords(array, block1, end_block) + last)))))))))

mph_signature_to_equation(signature, seed, num_variables) ==
    With(spooky_short_rehash(signature, seed), LAMBDA hash :
    With(clzll(num_variables), LAMBDA shift :
    With(Sub(Shl(1, shift), 1), LAMBDA mask :
       [i \in 0 .. 2 |->
           ToInt(Shr(Mul(And(hash[i], mask), U64(num_variables)), shift))])))

\* (int)(floor((1.09 + 0.01) * 256))
C_TIMES_256 == 281

\* a vertex offset computed from the whole entry, seed bits included
vertex_offset_with_seed(edge_offset_seed) ==
    Shr(Mul(edge_offset_seed, C_TIMES_256), 8)

vertex_offset(edge_offset_seed) ==
    Shr(Mul(And(edge_offset_seed, OFFSET_MASK), C_TIMES_256), 8)

get_2bit_value(array, pos) ==
    With(Mul(pos, 2), LAMBDA p :
       And(Shr(Rd(array, p \div WordBits), p % WordBits), 3))

mph_get_byte_array(mph, key, len) ==
    With(spooky_short(key, len, mph.global_seed), LAMBDA signature :
    With(ToInt(MulHigh(Shr(signature[0], 1), mph.multiplier)), LAMBDA bucket :
    With(Rd(mph.edge_offset_and_seed, bucket), LAMBDA edge_offset_seed :
    With(vertex_offset(edge_offset_seed), LAMBDA bucket_offset :
    With(ToInt(Sub(vertex_offset(Rd(mph.edge_offset_and_seed, bucket + 1)), bucket_offset)),
         LAMBDA num_variables :
    With(mph_signature_to_equation(signature, And(edge_offset_seed, Not(OFFSET_MASK)),
             num_variables),
         LAMBDA e :
    With((get_2bit_value(mph.array, U64(e[0] + bucket_offset))
             + get_2bit_value(mph.array, U64(e[1] + bucket_offset))
             + get_2bit_value(mph.array, U64(e[2] + bucket_offset))) % 3,
         LAMBDA side :
       ToInt64(Add(And(edge_offset_seed, OFFSET_MASK),
                   count_nonzero_pairs(bucket_offset, U64(bucket_offset + e[side]),
                                       mph.array))))))))))

mph_get_uint64_t(mph, key) ==
    With(spooky_short(KeyBytes(key), 8, mph.global_seed), LAMBDA signature :
    With(ToInt(MulHigh(Shr(signature[0], 1), mph.multiplier)), LAMBDA bucket :
    With(Rd(mph.edge_offset_and_seed, bucket), LAMBDA edge_offset_seed :
    With(vertex_offset(edge_offset_seed), LAMBDA bucket_offset :
    With(ToInt(Sub(vertex_offset(Rd(mph.edge_offset_and_seed, bucket + 1)), bucket_offset)),
         LAMBDA num_variables :
    With(mph_signature_to_equation(signature, And(edge_offset_seed, Not(OFFSET_MASK)),
             num_variables),
         LAMBDA e :
    With((get_2bit_value(mph.array, U64(e[0] + bucket_offset))
             + get_2bit_value(mph.array, U64(e[1] + bucket_offset))
             + get_2bit_value(mph.array, U64(e[2] + bucket_offset))) % 3,
         LAMBDA side :
       ToInt64(Add(And(edge_offset_seed, OFFSET_MASK),
                   count_nonzero_pairs(bucket_offset, U64(bucket_offset + e[side]),
                                       mph.array))))))))))

-----------------------------------------------------------------------------
(* csf3.c: compressed static function *)

\* a hit that forgets the symbols of the earlier tiers
decode_hit_in_tier(csf, value, curr) ==
    With(Rd(csf.shift, curr), LAMBDA s :
       Rd(csf.symbol,
          Sub(Shr(value, s), Shr(Rd(csf.last_codeword_plus_one, curr), s))))

\* the body of the if: value < last_codeword_plus_one[curr]
decode_hit(csf, value, curr) ==
    With(Rd(csf.shift, curr), LAMBDA s :
       Rd(csf.symbol,
          Add(Sub(Shr(value, s), Shr(Rd(csf.last_codeword_plus_one, curr), s)),
              Rd(csf.how_many_up_to_block, curr))))

\* for (int curr = 0;; curr++) ...: the scan from tier curr on. A scan that
\* leaves the decoding table reads past the allocation; what it returns then
\* is not defined.
RECURSIVE decode_from(_, _, _)
decode_from(csf, value, curr) ==
    IF curr \notin DOMAIN csf.last_codeword_plus_one THEN env.junk
    ELSE IF value < csf.last_codeword_plus_one[curr]
         THEN decode_hit(csf, value, curr)
         ELSE decode_from(csf, value, curr + 1)

decode(csf, value) == decode_from(csf, value, 0)

csf3_signature_to_equation(signature, seed, num_variables) ==
    With(spooky_short_rehash(signature, seed), LAMBDA hash :
    With(clzll(num_variables), LAMBDA shift :
    With(Sub(Shl(1, shift), 1), LAMBDA mask :
       [i \in 0 .. 2 |->
           ToInt(Shr(Mul(And(hash[i], mask), U64(num_variables)), shift))])))

\* bits of a CSF3 offset_and_seed entry that hold the seed (10 of 64 in the source)
CsfSeedBits == ByteBits + 2

\* UINT64_C(-1) >> 10
csf3_OFFSET_MASK == Shr(WordMask, CsfSeedBits)

\* the reader of sf.c with pos taken for a position in units of width bits
csf3_get_value_scaled(array, pos, width) ==
    With(Mul(pos, width), LAMBDA p :
    With(WordBits - width, LAMBDA l :
    With(ToInt(p \div WordBits), LAMBDA start_word :
    With(ToInt(p % WordBits), LAMBDA start_bit :
       IF start_bit <= l
       THEN Shr(Shl(Rd(array, start_word), l - start_bit), l)
       ELSE Or(Shr(Rd(array, start_word), start_bit),
               Shr(Shl(Rd(array, start_word + 1), WordBits + l - start_bit), l))))))

\* a reader that never looks at the second word
csf3_get_value_one_word(array, pos, width) ==
    With(WordBits - width, LAMBDA l :
    With(ToInt(pos \div WordBits), LAMBDA start_word :
    With(ToInt(pos % WordBits), LAMBDA start_bit :
       IF start_bit <= l
       THEN Shr(Shl(Rd(array, start_word), l - start_bit), l)
       ELSE Shr(Rd(array, start_word), start_bit))))

\* csf3.c: the width bits at bit position pos
csf3_get_value(array, pos, width) ==
    With(WordBits - width, LAMBDA l :
    With(ToInt(pos \div WordBits), LAMBDA start_word :
    With(ToInt(pos % WordBits), LAMBDA start_bit :
       IF start_bit <= l
       THEN Shr(Shl(Rd(array, start_word), l - start_bit), l)
       ELSE Or(Shr(Rd(array, start_word), start_bit),
               Shr(Shl(Rd(array, start_word + 1), WordBits + l - start_bit), l)))))

csf3_get_byte_array(csf, key, len) ==
    With(spooky_short(key, len, csf.global_seed), LAMBDA signature :
    With(ToInt(MulHigh(Shr(signature[0], 1), csf.multiplier)), LAMBDA bucket :
    With(Rd(csf.offset_and_seed, bucket), LAMBDA offset_seed :
    With(And(offset_seed, csf3_OFFSET_MASK), LAMBDA bucket_offset :
    With(csf.global_max_codeword_length, LAMBDA w :
    With(ToInt(Sub(Sub(And(Rd(csf.offset_and_seed, bucket + 1), csf3_OFFSET_MASK),
             bucket_offset), U64(w))),
         LAMBDA num_variables :
    With(csf3_signature_to_equation(signature, And(offset_seed, Not(csf3_OFFSET_MASK)),
             num_variables),
         LAMBDA e :
    With(ToInt64(decode(csf,
             Xor(Xor(csf3_get_value(csf.array, U64(e[0] + bucket_offset), w),
             csf3_get_value(csf.array, U64(e[1] + bucket_offset), w)),
             csf3_get_value(csf.array, U64(e[2] + bucket_offset), w)))),
         LAMBDA t :
       IF t # -1 THEN t
       ELSE
    With(U64(csf.global_max_codeword_length - csf.escape_length), LAMBDA end :
    With(Sub(end, U64(csf.escaped_symbol_length)), LAMBDA start :
            ToInt64(Xor(Xor(csf3_get_value(csf.array, Add(U64(e[0]), start),
                                           ToInt(Add(U64(e[0]), end))),
                            csf3_get_value(csf.array, Add(U64(e[1]), start),
                                           ToInt(Add(U64(e[1]), end)))),
                        csf3_get_value(csf.array, Add(U64(e[2]), start),
                                       ToInt(Add(U64(e[2]), end)))))))))))))))

csf3_get_uint64_t(csf, key) ==
    With(spooky_short(KeyBytes(key), 8, csf.global_seed), LAMBDA signature :
    With(ToInt(MulHigh(Shr(signature[0], 1), csf.multiplier)), LAMBDA bucket :
    With(Rd(csf.offset_and_seed, bucket), LAMBDA offset_seed :
    With(And(offset_seed, csf3_OFFSET_MASK), LAMBDA bucket_offset :
    With(csf.global_max_codeword_length, LAMBDA w :
    With(ToInt(Sub(Sub(And(Rd(csf.offset_and_seed, bucket + 1), csf3_OFFSET_MASK),
             bucket_offset), U64(w))),
         LAMBDA num_variables :
    With(csf3_signature_to_equation(signature, And(offset_seed, Not(csf3_OFFSET_MASK)),
             num_variables),
         LAMBDA e :
    With(ToInt64(decode(csf,
             Xor(Xor(csf3_get_value(csf.array, U64(e[0] + bucket_offset), w),
             csf3_get_value(csf.array, U64(e[1] + bucket_offset), w)),
             csf3_get_value(csf.array, U64(e[2] + bucket_offset), w)))),
         LAMBDA t :
       IF t # -1 THEN t
       ELSE
    With(U64(csf.global_max_codeword_length - csf.escape_length), LAMBDA end :
    With(Sub(end, U64(csf.escaped_symbol_length)), LAMBDA start :
            ToInt64(Xor(Xor(csf3_get_value(csf.array, Add(U64(e[0]), start),
                                           ToInt(Add(U64(e[0]), end))),
                            csf3_get_value(csf.array, Add(U64(e[1]), start),
                                           ToInt(Add(U64(e[1]), end)))),
                        csf3_get_value(csf.array, Add(U64(e[2]), start),
                                       ToInt(Add(U64(e[2]), end)))))))))))))))

-----------------------------------------------------------------------------
(* Structures after load, keys, and the query actions *)

Buckets == Pow2(ChunkBits)
Bytes == 0 .. Pow2(ByteBits) - 1

\* word j of memory image f
Fill(f, j) == (f * WordMask + (j + 1 - f) * 21331 + j * j * 1799 * (f + 1)) % WordMod
Image(f, n) == [j \in 0 .. n - 1 |-> Fill(f, j)]

Blank ==
    [kind |-> "none", size |-> 0, width |-> 0, chunk_shift |-> 0, multiplier |-> 0,
     global_seed |-> 0, offset_and_seed |-> <<>>, edge_offset_and_seed |-> <<>>,
     array |-> <<>>,
     global_max_codeword_length |-> 0, last_codeword_plus_one |-> <<>>,
     how_many_up_to_block |-> <<>>, shift |-> <<>>, symbol |-> <<>>,
     escape_length |-> 0, escaped_symbol_length |-> 0]

RECURSIVE SumTo(_, _)
SumTo(shape, b) == IF b = 0 THEN 0 ELSE SumTo(shape, b - 1) + shape[b - 1]

\* the offset_and_seed table of buckets that span shape[b] positions each;
\* bucket b carries seed (s + b) mod 2^SeedBits in its high bits
OffsetAndSeed(shape, s) ==
    [b \in 0 .. Buckets |->
        Or(Shl((s + b) % Pow2(SeedBits), WordBits - SeedBits), SumTo(shape, b))]

CeilDiv(a, b) == (a + b - 1) \div b

SfStruct(kind, width, shape, s, g, f) ==
    LET n == CeilDiv(SumTo(shape, Buckets) * width, WordBits)
    IN [Blank EXCEPT !.kind = kind, !.size = SumTo(shape, Buckets), !.width = width,
                     !.chunk_shift = WordBits - ChunkBits,
                     !.multiplier = 2 * Buckets,
                     !.global_seed = g,
                     !.offset_and_seed = OffsetAndSeed(shape, s),
                     !.array = Image(f, n)]

SfStructs ==
    { SfStruct(kind, width, shape, s, g, f) :
        kind \in {"sf", "sf3", "sf4"}, width \in 1 .. WordBits,
        shape \in [0 .. Buckets - 1 -> {0, MaxVars}],
        s \in {1}, g \in 0 .. MaxSeed, f \in 0 .. NumImages - 1 }

\* the array, the tables and every index fit the `int' variables of the lookups
IntSized(s) ==
    /\ Length(s.array) < Pow2(IntBits - 1)
    /\ Length(s.offset_and_seed) < Pow2(IntBits - 1)

HasEmptyBucket(s) ==
    \E b \in 0 .. Buckets - 1 :
        And(s.offset_and_seed[b], OFFSET_MASK) = And(s.offset_and_seed[b + 1], OFFSET_MASK)

Clz0Outcomes == {WordBits - 1, WordBits}

ShortKeys == UNION { [1 .. n -> Bytes] : n \in 0 .. MaxKeyLen }
U64Keys == 0 .. MaxU64Key
ByteKeys == ShortKeys \cup { KeyBytes(k) : k \in U64Keys }
NoSig == Lanes(0, 0, 0, 0)
Signatures(s) ==
    { spooky_short(k, Len(k), s.global_seed) : k \in ByteKeys }
        \cup {NoSig, Lanes(WordMask, 1, 2, 3)}

NoCall == [fn |-> "none", key |-> <<>>, k64 |-> 0, sig |-> NoSig]
Idle == call.fn = "none"
NoDec == [pc |-> "idle", value |-> 0, curr |-> 0, out |-> 0]
NoBuild == [code |-> <<>>, counts |-> "none", escape |-> 0]

Unloaded == st.kind = "none"

NoApp == [fn |-> "none", in |-> <<>>, out |-> <<>>]

Readers == 1 .. NumReaders
IdleReader ==
    [pc |-> "idle", key |-> <<>>, n |-> 0, view |-> Blank, signature |-> NoSig, at |-> <<>>,
     result |-> 0]

(* The stream behind the file handle given to a loader, as the sequence of
   the fields written to it: the 64-bit scalars and the elements of the
   arrays, in the order the loader reads them. *)
AsSeq(array) == [i \in 1 .. Length(array) |-> array[i - 1]]

SfStream(s) ==
    <<s.size, s.width, IF s.kind = "sf" THEN s.chunk_shift ELSE s.multiplier,
      s.global_seed, Length(s.offset_and_seed)>>
        \o AsSeq(s.offset_and_seed) \o <<Length(s.array)>> \o AsSeq(s.array)

MphStream(s) ==
    <<s.size, s.multiplier, s.global_seed, Length(s.edge_offset_and_seed)>>
        \o AsSeq(s.edge_offset_and_seed) \o <<Length(s.array)>> \o AsSeq(s.array)

CsfStream(s) ==
    <<s.size, s.multiplier, s.global_max_codeword_length, s.global_seed,
      Length(s.offset_and_seed)>>
        \o AsSeq(s.offset_and_seed) \o <<Length(s.array)>> \o AsSeq(s.array)
        \o <<Length(s.last_codeword_plus_one)>>
        \o AsSeq(s.last_codeword_plus_one) \o AsSeq(s.how_many_up_to_block)
        \o AsSeq(s.shift)
        \o <<Length(s.symbol)>> \o AsSeq(s.symbol)

NoFile == [have |-> 0, asked |-> 0]
\* a stream that holds every field the loader asks for
WholeFile(stream) == [have |-> Len(stream), asked |-> Len(stream)]

Init ==
    /\ st = Blank
    /\ keys = {}
    /\ built = NoBuild
    /\ env = [junk |-> 0, clz0 |-> WordBits]
    /\ call = NoCall
    /\ ret = 0
    /\ dec = NoDec
    /\ fd = NoFile
    /\ thr = [t \in Readers |-> IdleReader]
    /\ app = NoApp

\* load_sf reads the structure from the file; the same layout serves the
\* chunked (sf), 3-hypergraph (sf3) and 4-hypergraph (sf4) lookups
Load_sf ==
    /\ Unloaded
    /\ st' \in { s \in SfStructs : IntSized(s) }
    /\ keys' = {}
    /\ built' = NoBuild
    /\ env' \in { [junk |-> Fill(1, Length(st'.array)), clz0 |-> c] :
                    c \in IF HasEmptyBucket(st') THEN Clz0Outcomes ELSE {WordBits} }
    /\ fd' = WholeFile(SfStream(st'))
    /\ UNCHANGED <<call, ret, dec, thr, app>>

(* A minimal perfect hash as the offline builder leaves it: the keys
   0 .. n-1 (as 8-byte strings) are spread over the buckets by the multiplier,
   entry b of the table holds bucket b's seed and base rank, and the 2-bit
   array of each bucket solves the bucket's system: every key's edge selects
   a hinge of its own, hinges hold a non-zero value, all other vertices 0. *)
MphBuckets == 2 * Buckets
MphSeeds == 0 .. Pow2(SeedBits) - 1

\* the bucket of a key of signature sig
MphBucketOf(sig) == MulHigh(Shr(sig[0], 1), 2 * MphBuckets)

\* f as an explicit table: every f[x] is computed once
Table(f, D) == [x \in D |-> f[x]] @@ <<>>

Min(S) == CHOOSE x \in S : \A y \in S : x <= y
RECURSIVE Nth(_, _)
Nth(S, i) == IF i = 0 THEN Min(S) ELSE Nth(S \ {Min(S)}, i - 1)

\* the hinge the stored values select for an edge e of a bucket holding values a
Hinge(a, e) == e[(a[e[0]] + a[e[1]] + a[e[2]]) % 3]

Solves(a, edges, nv) ==
    /\ \A i \in DOMAIN edges : a[Hinge(a, edges[i])] # 0
    /\ \A i, j \in DOMAIN edges : i # j => Hinge(a, edges[i]) # Hinge(a, edges[j])
    /\ \A x \in 0 .. nv - 1 : a[x] # 0 => \E i \in DOMAIN edges : Hinge(a, edges[i]) = x

RECURSIVE PairsCode(_, _)
PairsCode(a, n) == IF n = 0 THEN 0 ELSE PairsCode(a, n - 1) + a[n - 1] * Pow2(2 * (n - 1))

\* the solutions <<seed, values>> of a bucket, each as the number seed * 4^nv + values
BucketSolutions(members, sig, nv) ==
    UNION { With(Table([i \in members |->
                          Table(mph_signature_to_equation(
                                    sig[i], Shl(s, WordBits - SeedBits), nv), 0 .. 2)],
                       members),
                 LAMBDA edges :
                 { s * Pow2(2 * nv) + PairsCode(a, nv) :
                     a \in { f \in [0 .. nv - 1 -> 0 .. 3] : Solves(f, edges, nv) } })
          : s \in MphSeeds }

\* the bucket that holds vertex x, and the 2-bit value stored at x, for
\* buckets that start at vertex vo[b] and hold the solutions pick[b]
MphBucketAt(vo, x) == CHOOSE b \in 0 .. MphBuckets - 1 : vo[b] <= x /\ x < vo[b + 1]
MphPair(pick, vo, x) ==
    IF x < vo[MphBuckets]
    THEN (pick[MphBucketAt(vo, x)] \div Pow2(2 * (x - vo[MphBucketAt(vo, x)]))) % 4
    ELSE 0
MphWord(pick, vo, j) ==
    PairsCode([t \in 0 .. PairsPerWord - 1 |-> MphPair(pick, vo, j * PairsPerWord + t)],
              PairsPerWord)
MphSeedOf(pick, vo, b) ==
    IF b = MphBuckets THEN 0 ELSE pick[b] \div Pow2(2 * (vo[b + 1] - vo[b]))

MphStruct(n, g, v) ==
    With(Table([i \in 0 .. n - 1 |-> spooky_short(KeyBytes(i), 8, g)], 0 .. n - 1),
         LAMBDA sig :
    With(Table([i \in 0 .. n - 1 |-> MphBucketOf(sig[i])], 0 .. n - 1), LAMBDA bucket :
    With(Table([b \in 0 .. MphBuckets |->
                   Cardinality({ i \in 0 .. n - 1 : bucket[i] < b })],
               0 .. MphBuckets),
         LAMBDA base :
    With(Table([b \in 0 .. MphBuckets |-> vertex_offset(base[b])], 0 .. MphBuckets),
         LAMBDA vo :
    With(Table([b \in 0 .. MphBuckets - 1 |->
                   IF base[b + 1] = base[b] THEN {0}
                   ELSE BucketSolutions({ i \in 0 .. n - 1 : bucket[i] = b }, sig,
                                        vo[b + 1] - vo[b])],
               0 .. MphBuckets - 1),
         LAMBDA sols :
       IF \E b \in 0 .. MphBuckets - 1 : sols[b] = {} THEN Blank
       ELSE
    With(Table([b \in 0 .. MphBuckets - 1 |->
                   Nth(sols[b], (v * 7) % Cardinality(sols[b]))],
               0 .. MphBuckets - 1),
         LAMBDA pick :
         [Blank EXCEPT !.kind = "mph", !.size = n,
                       !.multiplier = 2 * MphBuckets,
                       !.global_seed = g,
                       !.edge_offset_and_seed =
                           [b \in 0 .. MphBuckets |->
                               Or(Shl(MphSeedOf(pick, vo, b), WordBits - SeedBits),
                                  base[b])],
                       !.array = [j \in 0 .. CeilDiv(2 * vo[MphBuckets], WordBits) - 1
                                    |-> MphWord(pick, vo, j)]]))))))

MphBuilds ==
    { <<n, MphStruct(n, g, v)>> :
        n \in 1 .. MaxMphKeys, g \in 0 .. MaxSeed, v \in 0 .. NumVariants - 1 }

Load_mph ==
    /\ Unloaded
    /\ \E b \in MphBuilds :
          /\ b[2].kind = "mph"
          /\ st' = b[2]
          /\ keys' = { KeyBytes(i) : i \in 0 .. b[1] - 1 }
    /\ built' = NoBuild
    /\ env' = [junk |-> Fill(1, Length(st'.array)), clz0 |-> WordBits]
    /\ fd' = WholeFile(MphStream(st'))
    /\ UNCHANGED <<call, ret, dec, thr, app>>

(* A CSF3 as the offline builder leaves it.  `code' lists the codeword
   lengths of the symbols in canonical order (by length, then by codeword);
   the tables follow the data model.  The symbol table holds symbol k's
   value, the escape symbol being all ones (-1).  `counts' tells how
   how_many_up_to_block was filled: entry i counts the symbols whose
   codeword is no longer than tier i's ("upto_current") or than tier i-1's
   ("upto_previous").  A bucket of num_variables positions is followed by w
   bits of slack. *)
\* the complete code of lengths 1, 2, ..., m-1, m, m
Ladder(m) == [k \in 1 .. m + 1 |-> IF k <= m THEN k ELSE m]

MaxCodeLen == 3
CsfCodes ==
    { <<1, 1>>, <<1, 2>>, <<1, 2, 2>>, <<2, 2, 2, 2>>, Ladder(MaxCodeLen), Ladder(WordBits) }

RECURSIVE Codeword(_, _)
Codeword(code, k) ==
    IF k <= 1 THEN 0
    ELSE (Codeword(code, k - 1) + 1) * Pow2(code[k] - code[k - 1])

Max(S) == CHOOSE x \in S : \A y \in S : x >= y
CodeLengths(code) == { code[k] : k \in 1 .. Len(code) }
\* the length of tier i, 0 <= i < L
TierLength(code, i) == Nth(CodeLengths(code), i)
LastOfLength(code, l) == Max({ k \in 1 .. Len(code) : code[k] = l })
Complete(code) ==
    Len(code) > 0 /\ Codeword(code, Len(code)) + 1 = Pow2(code[Len(code)])

\* the escaped symbols are stored in EscapedBits bits
EscapedBits == 2
SymbolValue(k) == 3 * k + 1

CsfStruct(code, escape, counts, shape, s, g, f) ==
    LET L == Cardinality(CodeLengths(code))
        escape_length == IF escape = 0 THEN 0 ELSE code[escape]
        escaped_symbol_length == IF escape = 0 THEN 0 ELSE EscapedBits
        w == Max({code[Len(code)], escape_length + escaped_symbol_length})
        span == [b \in 0 .. Buckets - 1 |-> IF shape[b] = 0 THEN 0 ELSE shape[b] + w]
        bits == SumTo(span, Buckets)
    IN [Blank EXCEPT
          !.kind = "csf3", !.size = SumTo(shape, Buckets),
          !.multiplier = 2 * Buckets,
          !.global_max_codeword_length = w,
          !.global_seed = g,
          !.offset_and_seed =
              [b \in 0 .. Buckets |->
                  (((s + b) % Pow2(CsfSeedBits)) * Pow2(WordBits - CsfSeedBits)
                      + SumTo(span, b)) % WordMod],
          !.array = Image(f, CeilDiv(bits, WordBits)),
          !.last_codeword_plus_one =
              [i \in 0 .. L - 1 |->
                  LET l == TierLength(code, i)
                  IN ((Codeword(code, LastOfLength(code, l)) + 1) * Pow2(w - l)) % WordMod],
          !.how_many_up_to_block =
              [i \in 0 .. L - 1 |->
                  LET l == TierLength(code, i)
                  IN Cardinality({ k \in 1 .. Len(code) :
                                     IF counts = "upto_current" THEN code[k] <= l
                                     ELSE code[k] < l })],
          !.shift = [i \in 0 .. L - 1 |-> w - TierLength(code, i)],
          !.symbol = [k \in 0 .. Len(code) - 1 |->
                         IF k + 1 = escape THEN WordMask ELSE SymbolValue(k)],
          !.escape_length = escape_length,
          !.escaped_symbol_length = escaped_symbol_length]

CsfBuilds ==
    { [code |-> code, escape |-> escape, counts |-> counts, shape |-> shape, g |-> g, f |-> f] :
        code \in CsfCodes, escape \in {0, 2},
        counts \in {"upto_current", "upto_previous"},
        shape \in [0 .. Buckets - 1 -> {0, MaxVars, WordBits}],
        g \in 0 .. MaxSeed, f \in 0 .. NumImages - 1 }

Load_csf3 ==
    /\ Unloaded
    /\ \E b \in CsfBuilds :
          /\ st' = CsfStruct(b.code, b.escape, b.counts, b.shape, 1, b.g, b.f)
          /\ built' = [code |-> b.code, counts |-> b.counts, escape |-> b.escape]
    /\ IntSized(st')
    /\ keys' = {}
    /\ env' = [junk |-> Fill(1, Length(st'.array)), clz0 |-> WordBits]
    /\ fd' = WholeFile(CsfStream(st'))
    /\ UNCHANGED <<call, ret, dec, thr, app>>

Query(fn, key, k64, sig, result) ==
    /\ call' = [fn |-> fn, key |-> key, k64 |-> k64, sig |-> sig]
    /\ ret' = result
    /\ UNCHANGED <<st, keys, built, env, dec, fd, thr, app>>

Sf_get_byte_array ==
    /\ Idle /\ st.kind = "sf"
    /\ \E k \in ByteKeys : Query("get_byte_array", k, 0, NoSig, get_byte_array(st, k, Len(k)))

Sf_get_uint64_t ==
    /\ Idle /\ st.kind = "sf"
    /\ \E k \in U64Keys : Query("get_uint64_t", <<>>, k, NoSig, get_uint64_t(st, k))

Sf3_get_byte_array ==
    /\ Idle /\ st.kind = "sf3"
    /\ \E k \in ByteKeys :
          Query("sf3_get_byte_array", k, 0, NoSig, sf3_get_byte_array(st, k, Len(k)))

Sf3_get_uint64_t ==
    /\ Idle /\ st.kind = "sf3"
    /\ \E k \in U64Keys : Query("sf3_get_uint64_t", <<>>, k, NoSig, sf3_get_uint64_t(st, k))

Sf3_get_signature ==
    /\ Idle /\ st.kind = "sf3"
    /\ \E sig \in Signatures(st) :
          Query("sf3_get_signature", <<>>, 0, sig, sf3_get_signature(st, sig))

Sf4_get_byte_array ==
    /\ Idle /\ st.kind = "sf4"
    /\ \E k \in ByteKeys :
          Query("sf4_get_byte_array", k, 0, NoSig, sf4_get_byte_array(st, k, Len(k)))

Sf4_get_uint64_t ==
    /\ Idle /\ st.kind = "sf4"
    /\ \E k \in U64Keys : Query("sf4_get_uint64_t", <<>>, k, NoSig, sf4_get_uint64_t(st, k))

Sf4_get_signature ==
    /\ Idle /\ st.kind = "sf4"
    /\ \E sig \in Signatures(st) :
          Query("sf4_get_signature", <<>>, 0, sig, sf4_get_signature(st, sig))

MphByteKeys == ShortKeys \cup { KeyBytes(k) : k \in 0 .. MaxMphKeys }

Mph_get_byte_array ==
    /\ Idle /\ st.kind = "mph"
    /\ \E k \in MphByteKeys :
          Query("mph_get_byte_array", k, 0, NoSig, mph_get_byte_array(st, k, Len(k)))

Mph_get_uint64_t ==
    /\ Idle /\ st.kind = "mph"
    /\ \E k \in 0 .. MaxMphKeys :
          Query("mph_get_uint64_t", <<>>, k, NoSig, mph_get_uint64_t(st, k))

Csf3_get_byte_array ==
    /\ Idle /\ st.kind = "csf3"
    /\ \E k \in ByteKeys :
          Query("csf3_get_byte_array", k, 0, NoSig, csf3_get_byte_array(st, k, Len(k)))

Csf3_get_uint64_t ==
    /\ Idle /\ st.kind = "csf3"
    /\ \E k \in U64Keys : Query("csf3_get_uint64_t", <<>>, k, NoSig, csf3_get_uint64_t(st, k))

\* the w-bit values handed to decode: each codeword left-justified and
\* padded with zeros, with ones and with a mixed pattern, and the all-ones value
DecodeInputs ==
    LET w == st.global_max_codeword_length
    IN { Codeword(built.code, k) * Pow2(w - built.code[k])
             + ((pad * Fill(pad - 1, k)) % Pow2(w - built.code[k])) :
           k \in 1 .. Len(built.code), pad \in 0 .. 2 }
       \cup {Pow2(w) - 1}

\* decode(csf, value) is entered: curr = 0
Decode_call ==
    /\ Idle /\ st.kind = "csf3"
    /\ \E value \in DecodeInputs :
          /\ call' = [NoCall EXCEPT !.fn = "decode"]
          /\ dec' = [pc |-> "scan", value |-> value, curr |-> 0, out |-> 0]
    /\ UNCHANGED <<st, keys, built, env, ret, fd, thr, app>>

\* one round of the for loop of decode; a round whose curr is not an index of
\* the decoding table reads outside it
Decode_tier ==
    /\ dec.pc = "scan"
    /\ IF dec.curr \notin DOMAIN st.last_codeword_plus_one
       THEN dec' = [dec EXCEPT !.pc = "outside"] /\ ret' = ret
       ELSE IF dec.value < st.last_codeword_plus_one[dec.curr]
            THEN LET out == decode_hit(st, dec.value, dec.curr)
                 IN dec' = [dec EXCEPT !.pc = "done", !.out = out] /\ ret' = ToInt64(out)
            ELSE dec' = [dec EXCEPT !.curr = dec.curr + 1] /\ ret' = ret
    /\ UNCHANGED <<st, keys, built, env, call, fd, thr, app>>

\* the caller takes the result; the structure is ready for the next query
Return ==
    /\ ~Idle
    /\ dec.pc # "scan"
    /\ call' = NoCall
    /\ ret' = 0
    /\ dec' = NoDec
    /\ UNCHANGED <<st, keys, built, env, fd, thr, app>>

-----------------------------------------------------------------------------
(* The loaders on a stream that ends early.  read() stores the fields the
   stream still holds and leaves the rest of its buffer as it was; no loader
   looks at what read() returns. *)

\* read(h, &x, sizeof x) of field i of the stream into a variable that held `was'
ReadWord(stream, i, was) == IF i <= Len(stream) THEN stream[i] ELSE was
\* calloc(n, ...) followed by read(h, array, n * ...) from field i on
ReadArray(stream, i, n) == [j \in 0 .. n - 1 |-> ReadWord(stream, i + j, 0)]

\* what a local variable that was never assigned may hold
UninitWords == {0, 1}

\* sf.c: the third field is chunk_shift to sf.c and multiplier to sf3.c, sf4.c
load_sf(kind, stream, t0) ==
    With(ReadWord(stream, 2, t0), LAMBDA t1 :
    With(ReadWord(stream, 3, t1), LAMBDA t2 :
    With(ReadWord(stream, 5, 0), LAMBDA offset_and_seed_length :
    With(ReadWord(stream, 6 + offset_and_seed_length, 0), LAMBDA array_length :
       [Blank EXCEPT !.kind = kind,
                     !.size = ReadWord(stream, 1, 0),
                     !.width = ToInt(t1),
                     !.chunk_shift = ToInt(t2),
                     !.multiplier = t2,
                     !.global_seed = ReadWord(stream, 4, 0),
                     !.offset_and_seed = ReadArray(stream, 6, offset_and_seed_length),
                     !.array = ReadArray(stream, 7 + offset_and_seed_length,
                                         array_length)]))))

load_mph(stream, t0) ==
    With(ReadWord(stream, 4, 0), LAMBDA edge_offset_and_seed_length :
    With(ReadWord(stream, 5 + edge_offset_and_seed_length, 0), LAMBDA array_length :
       [Blank EXCEPT !.kind = "mph",
                     !.size = ReadWord(stream, 1, 0),
                     !.multiplier = ReadWord(stream, 2, t0),
                     !.global_seed = ReadWord(stream, 3, 0),
                     !.edge_offset_and_seed =
                         ReadArray(stream, 5, edge_offset_and_seed_length),
                     !.array = ReadArray(stream, 6 + edge_offset_and_seed_length,
                                         array_length)]))

\* csf.c: decoding_table_length and num_symbols are locals; the symbol table
\* is allocated with calloc(decoding_table_length, num_symbols * sizeof ...)
load_csf(stream, t0) ==
    With(ReadWord(stream, 2, t0), LAMBDA t1 :
    With(ReadWord(stream, 3, t1), LAMBDA t2 :
    With(ReadWord(stream, 5, 0), LAMBDA offset_and_seed_length :
    With(ReadWord(stream, 6 + offset_and_seed_length, 0), LAMBDA array_length :
    With(7 + offset_and_seed_length + array_length, LAMBDA at :
    With(ReadWord(stream, at, t0), LAMBDA decoding_table_length :
    With(ReadWord(stream, at + 1 + 3 * decoding_table_length, t0), LAMBDA num_symbols :
       [Blank EXCEPT !.kind = "csf3",
                     !.size = ReadWord(stream, 1, 0),
                     !.chunk_shift = ToInt(t1),
                     !.global_max_codeword_length = ToInt(t2),
                     !.global_seed = ReadWord(stream, 4, 0),
                     !.offset_and_seed = ReadArray(stream, 6, offset_and_seed_length),
                     !.array = ReadArray(stream, 7 + offset_and_seed_length, array_length),
                     !.last_codeword_plus_one =
                         ReadArray(stream, at + 1, decoding_table_length),
                     !.how_many_up_to_block =
                         ReadArray(stream, at + 1 + decoding_table_length,
                                   decoding_table_length),
                     !.shift =
                         ReadArray(stream, at + 1 + 2 * decoding_table_length,
                                   decoding_table_length),
                     !.symbol =
                         [j \in 0 .. decoding_table_length * num_symbols - 1 |->
                             IF j < num_symbols
                             THEN ReadWord(stream, at + 2 + 3 * decoding_table_length + j, 0)
                             ELSE 0]])))))))

\* the fields load_csf assigns (csf.h has no others)
LoadCsfAssigns ==
    {"size", "chunk_shift", "global_max_codeword_length", "global_seed",
     "offset_and_seed_length", "offset_and_seed", "array_length", "array",
     "last_codeword_plus_one", "how_many_up_to_block", "shift", "symbol"}

\* csf3.c reads multiplier, escape_length and escaped_symbol_length, which
\* load_csf never assigns: what they hold is not determined.  multiplier may
\* be 0 or the int that load_csf stored as chunk_shift
Unassigned(csf) ==
    { [csf EXCEPT !.multiplier = m, !.escape_length = x, !.escaped_symbol_length = y] :
        m \in {0, ToUInt(csf.chunk_shift)}, x \in UninitWords, y \in UninitWords }

\* the fields a loader asks the stream for, given the lengths it has read
SfAsked(s) == 6 + Length(s.offset_and_seed) + Length(s.array)
MphAsked(s) == 5 + Length(s.edge_offset_and_seed) + Length(s.array)
CsfAsked(s, num_symbols) ==
    8 + Length(s.offset_and_seed) + Length(s.array)
      + 3 * Length(s.last_codeword_plus_one) + num_symbols

\* the artifacts whose streams are cut
CutSfStructs ==
    { s \in SfStructs : IntSized(s) /\ s.width \in {1, WordBits} /\ s.global_seed = 0 }
CutMphStructs == { MphStruct(n, 0, 0) : n \in 1 .. 2 }
CutCsfStructs ==
    { CsfStruct(code, escape, "upto_current", [b \in 0 .. Buckets - 1 |-> MaxVars], 1, 0, 0) :
        code \in { <<1, 1>>, <<1, 2, 2>> }, escape \in {0, 2} }

\* the first `have' fields of a stream
Cut(stream, have) == SubSeq(stream, 1, have)

Load_sf_cut ==
    /\ Unloaded
    /\ \E s \in CutSfStructs, t0 \in UninitWords :
       \E have \in 0 .. Len(SfStream(s)) - 1 :
          /\ st' = load_sf(s.kind, Cut(SfStream(s), have), t0)
          /\ fd' = [have |-> have, asked |-> SfAsked(st')]
    /\ keys' = {}
    /\ built' = NoBuild
    /\ env' \in { [junk |-> Fill(1, Length(st'.array)), clz0 |-> c] : c \in Clz0Outcomes }
    /\ UNCHANGED <<call, ret, dec, thr, app>>

Load_mph_cut ==
    /\ Unloaded
    /\ \E s \in CutMphStructs, t0 \in UninitWords :
       \E have \in 0 .. Len(MphStream(s)) - 1 :
          /\ st' = load_mph(Cut(MphStream(s), have), t0)
          /\ fd' = [have |-> have, asked |-> MphAsked(st')]
    /\ keys' = {}
    /\ built' = NoBuild
    /\ env' \in { [junk |-> Fill(1, Length(st'.array)), clz0 |-> c] : c \in Clz0Outcomes }
    /\ UNCHANGED <<call, ret, dec, thr, app>>

Load_csf_cut ==
    /\ Unloaded
    /\ \E s \in CutCsfStructs, t0 \in UninitWords :
       \E have \in 0 .. Len(CsfStream(s)) - 1 :
          /\ st' \in Unassigned(load_csf(Cut(CsfStream(s), have), t0))
          /\ fd' = [have |-> have,
                    asked |-> CsfAsked(st',
                                 ReadWord(Cut(CsfStream(s), have),
                                          CsfAsked(st', 0), t0))]
    /\ keys' = {}
    /\ built' = NoBuild
    /\ env' \in { [junk |-> Fill(1, Length(st'.array)), clz0 |-> c] : c \in Clz0Outcomes }
    /\ UNCHANGED <<call, ret, dec, thr, app>>

\* load_csf on the whole stream of a well-formed artifact
Load_csf ==
    /\ Unloaded
    /\ \E b \in CsfBuilds :
          /\ IntSized(CsfStruct(b.code, b.escape, b.counts, b.shape, 1, b.g, b.f))
          /\ st' \in Unassigned(load_csf(
                         CsfStream(CsfStruct(b.code, b.escape, b.counts, b.shape, 1, b.g, b.f)),
                         0))
          /\ built' = [code |-> b.code, counts |-> b.counts, escape |-> b.escape]
    /\ keys' = {}
    /\ env' = [junk |-> Fill(1, Length(st'.array)), clz0 |-> WordBits]
    /\ fd' = WholeFile(CsfStream(st'))
    /\ UNCHANGED <<call, ret, dec, thr, app>>

\* the lookups of csf3.c on what load_csf returns
NextCsfLoad == Load_csf \/ Csf3_get_byte_array \/ Csf3_get_uint64_t \/ Return
SpecCsfLoad == Init /\ [][NextCsfLoad]_vars

\* loads of streams that end early, and the integer lookups on what they return
NextLoad ==
    \/ Load_sf_cut \/ Load_mph_cut \/ Load_csf_cut
    \/ Sf_get_uint64_t \/ Sf3_get_uint64_t \/ Sf4_get_uint64_t
    \/ Mph_get_uint64_t \/ Csf3_get_uint64_t
    \/ Return
SpecLoad == Init /\ [][NextLoad]_vars

-----------------------------------------------------------------------------
(* The helper functions called on their own, on inputs of the caller's
   choice *)

EquationVariants == {"sf", "sf3", "sf4", "mph", "csf3"}

\* signature_to_equation (triple_to_equation in sf.c) of a variant
SignatureToEquation(variant, signature, seed, num_variables) ==
    CASE variant = "sf" -> triple_to_equation(signature, seed, num_variables)
      [] variant = "sf3" -> sf3_signature_to_equation(signature, seed, num_variables)
      [] variant = "sf4" -> sf4_signature_to_equation(signature, seed, num_variables)
      [] variant = "mph" -> mph_signature_to_equation(signature, seed, num_variables)
      [] variant = "csf3" -> csf3_signature_to_equation(signature, seed, num_variables)

\* a signature with its fourth lane complemented
OtherLane3(signature) == [signature EXCEPT ![3] = Not(@)]

\* signatures: all zeros, all ones, those of the integer keys, and each of
\* them with another fourth lane
BaseSignatures ==
    {NoSig, Lanes(WordMask, WordMask, WordMask, WordMask)}
        \cup { spooky_short(KeyBytes(k), 8, 0) : k \in U64Keys }
EdgeSignatures == BaseSignatures \cup { OtherLane3(s) : s \in BaseSignatures }

\* a bucket's seed sits in the high bits of its table entry
EdgeSeeds == { Shl(s, WordBits - SeedBits) : s \in 0 .. Pow2(SeedBits) - 1 }

\* the numbers of variables that fit an `int'
EdgeVariables == 1 .. Pow2(IntBits - 1) - 1

Signature_to_equation ==
    /\ app = NoApp
    /\ \E variant \in EquationVariants, signature \in EdgeSignatures, seed \in EdgeSeeds,
          num_variables \in EdgeVariables :
          app' = [fn |-> variant, in |-> <<signature, seed, num_variables>>,
                  out |-> SignatureToEquation(variant, signature, seed, num_variables)]
    /\ UNCHANGED <<st, keys, built, env, call, ret, dec, fd, thr>>

NextEdges == Signature_to_equation
SpecEdges == Init /\ [][NextEdges]_vars

\* the two bit accessors: get_value of sf.c, sf3.c and sf4.c takes a unit
\* position, get_value of csf3.c a bit position
GetValueVariants == {"get_value", "csf3_get_value"}
GetValue(variant, array, pos, width) ==
    IF variant = "get_value" THEN get_value(array, pos, width)
    ELSE csf3_get_value(array, pos, width)

\* every width, and every position whose first bit is in the array
Get_value ==
    /\ app = NoApp
    /\ \E variant \in GetValueVariants, n \in 1 .. ArrayWords, f \in 0 .. NumImages - 1,
          width \in 1 .. WordBits :
       \E pos \in 0 .. (IF variant = "get_value" THEN (WordBits * n - 1) \div width
                        ELSE WordBits * n - 1) :
          app' = [fn |-> variant, in |-> <<Image(f, n), pos, width>>,
                  out |-> GetValue(variant, Image(f, n), pos, width)]
    /\ UNCHANGED <<st, keys, built, env, call, ret, dec, fd, thr>>

NextBits == Get_value
SpecBits == Init /\ [][NextBits]_vars

\* every array of up to ArrayWords words and every range of pairs inside it
Count_nonzero_pairs ==
    /\ app = NoApp
    /\ \E n \in 0 .. ArrayWords, f \in 0 .. NumImages - 1 :
       \E end \in 0 .. PairsPerWord * n :
       \E start \in 0 .. end :
          app' = [fn |-> "count_nonzero_pairs", in |-> <<start, end, Image(f, n)>>,
                  out |-> count_nonzero_pairs(start, end, Image(f, n))]
    /\ UNCHANGED <<st, keys, built, env, call, ret, dec, fd, thr>>

NextPairs == Count_nonzero_pairs
SpecPairs == Init /\ [][NextPairs]_vars

\* a number of variables taken from the bucket's key count alone
mph_num_variables_of_count(edge_offset_seed, next_offset_seed) ==
    ToInt(vertex_offset(Sub(And(next_offset_seed, OFFSET_MASK),
                            And(edge_offset_seed, OFFSET_MASK))))

\* mph.c: the number of variables of a bucket, from its table entry and the next
mph_num_variables(edge_offset_seed, next_offset_seed) ==
    With(vertex_offset(edge_offset_seed), LAMBDA bucket_offset :
       ToInt(Sub(vertex_offset(next_offset_seed), bucket_offset)))

\* every base rank, every number of keys in the bucket, every pair of seeds
Num_variables ==
    /\ app = NoApp
    /\ \E r \in 0 .. MaxRank, c \in 0 .. MaxCount, seed \in EdgeSeeds, next \in EdgeSeeds :
          app' = [fn |-> "num_variables", in |-> <<r, c, seed, next>>,
                  out |-> mph_num_variables(seed + r, next + r + c)]
    /\ UNCHANGED <<st, keys, built, env, call, ret, dec, fd, thr>>

NextOffsets == Num_variables
SpecOffsets == Init /\ [][NextOffsets]_vars

\* the bytes of the messages the hash is called on
MessageByte(f, i) == (f + i * (i + 3) + i \div 5) % Pow2(ByteBits)
Message(f, n) == [i \in 1 .. n |-> MessageByte(f, i)]

\* every length up to MaxMessage, two fillings, every global seed
Spooky_short ==
    /\ app = NoApp
    /\ \E length \in 0 .. MaxMessage, f \in 0 .. NumImages - 1, seed \in 0 .. MaxSeed :
          app' = [fn |-> "spooky_short", in |-> <<Message(f, length), length, seed>>,
                  out |-> [tuple |-> spooky_short(Message(f, length), length, seed),
                           reads |-> SpookyReads(length)]]
    /\ UNCHANGED <<st, keys, built, env, call, ret, dec, fd, thr>>

NextHash == Spooky_short
SpecHash == Init /\ [][NextHash]_vars

\* the lookups of the SF_8 build, called on the structures whose width is a byte
Sf3_get_byte_array_SF_8 ==
    /\ Idle /\ st.kind = "sf3" /\ st.width = ByteBits
    /\ \E k \in ByteKeys :
          Query("sf3_get_byte_array_SF_8", k, 0, NoSig,
                sf3_get_byte_array_SF_8(st, k, Len(k)))

Sf3_get_uint64_t_SF_8 ==
    /\ Idle /\ st.kind = "sf3" /\ st.width = ByteBits
    /\ \E k \in U64Keys :
          Query("sf3_get_uint64_t_SF_8", <<>>, k, NoSig, sf3_get_uint64_t_SF_8(st, k))

Sf3_get_signature_SF_8 ==
    /\ Idle /\ st.kind = "sf3" /\ st.width = ByteBits
    /\ \E sig \in Signatures(st) :
          Query("sf3_get_signature_SF_8", <<>>, 0, sig, sf3_get_signature_SF_8(st, sig))

NextSF8 ==
    \/ Load_sf
    \/ Sf3_get_byte_array_SF_8 \/ Sf3_get_uint64_t_SF_8 \/ Sf3_get_signature_SF_8
    \/ Return
SpecSF8 == Init /\ [][NextSF8]_vars

NextSF ==
    \/ Load_sf
    \/ Sf_get_byte_array \/ Sf_get_uint64_t
    \/ Sf3_get_byte_array \/ Sf3_get_uint64_t \/ Sf3_get_signature
    \/ Sf4_get_byte_array \/ Sf4_get_uint64_t \/ Sf4_get_signature
    \/ Return
SpecSF == Init /\ [][NextSF]_vars

NextMPH == Load_mph \/ Mph_get_byte_array \/ Mph_get_uint64_t \/ Return
SpecMPH == Init /\ [][NextMPH]_vars

NextCSF ==
    \/ Load_csf3
    \/ Csf3_get_byte_array \/ Csf3_get_uint64_t
    \/ Decode_call \/ Decode_tier
    \/ Return
SpecCSF == Init /\ [][NextCSF]_vars

Next ==
    \/ Load_sf \/ Load_mph
    \/ Sf_get_byte_array \/ Sf_get_uint64_t
    \/ Sf3_get_byte_array \/ Sf3_get_uint64_t \/ Sf3_get_signature
    \/ Sf4_get_byte_array \/ Sf4_get_uint64_t \/ Sf4_get_signature
    \/ Mph_get_byte_array \/ Mph_get_uint64_t
    \/ Load_csf3
    \/ Csf3_get_byte_array \/ Csf3_get_uint64_t
    \/ Decode_call \/ Decode_tier
    \/ Return

Spec == Init /\ [][Next]_vars

-----------------------------------------------------------------------------
(* What the value array stores, read one bit at a time: bit i of the array
   is bit i mod WordBits of word i div WordBits, and the value of width
   `width' at position pos is made of bits pos*width .. pos*width+width-1,
   lowest first. *)

Bit(array, i) == (array[i \div WordBits] \div Pow2(i % WordBits)) % 2

RECURSIVE BitsValue(_, _, _)
BitsValue(array, from, n) ==
    IF n = 0 THEN 0 ELSE Bit(array, from) + 2 * BitsValue(array, from + 1, n - 1)

StoredValue(array, pos, width) == BitsValue(array, pos * width, width)

\* the four-lane signature of the pending call's key
CallSignature ==
    IF call.fn \in {"sf3_get_signature", "sf4_get_signature"} THEN call.sig
    ELSE IF call.fn \in {"get_uint64_t", "sf3_get_uint64_t", "sf4_get_uint64_t",
                         "mph_get_uint64_t", "csf3_get_uint64_t"}
         THEN spooky_short(KeyBytes(call.k64), 8, st.global_seed)
         ELSE spooky_short(call.key, Len(call.key), st.global_seed)

\* the bucket (chunk) of a signature, its first position, its size and its seed
BucketOf(s, sig) ==
    IF s.kind = "sf" THEN sig[0] \div Pow2(s.chunk_shift)
    ELSE MulHigh(sig[0] \div 2, s.multiplier)
BucketStart(s, b) == s.offset_and_seed[b] % Pow2(WordBits - SeedBits)
BucketSize(s, b) == BucketStart(s, b + 1) - BucketStart(s, b)
BucketSeed(s, b) == s.offset_and_seed[b] - BucketStart(s, b)

\* the positions of the key's edge in the value array
EdgePositions(s, sig) ==
    LET b == BucketOf(s, sig)
        e == IF s.kind = "sf4"
             THEN sf4_signature_to_equation(sig, BucketSeed(s, b), BucketSize(s, b))
             ELSE sf3_signature_to_equation(sig, BucketSeed(s, b), BucketSize(s, b))
    IN [i \in DOMAIN e |-> BucketStart(s, b) + e[i]]

RECURSIVE XorOver(_, _)
XorOver(f, n) == IF n = 0 THEN 0 ELSE Xor(XorOver(f, n - 1), f[n - 1])

\* the value the artifact stores for a signature
ValueOf(s, sig) ==
    LET at == EdgePositions(s, sig)
    IN XorOver([i \in DOMAIN at |-> StoredValue(s.array, at[i], s.width)],
               Cardinality(DOMAIN at))

ByteArrayLookups == {"get_byte_array", "sf3_get_byte_array", "sf4_get_byte_array"}

\* C1: in an SF, SF3 or SF4 artifact, the byte-array lookup of a key whose
\* bucket is not empty returns the XOR of the width-bit values stored at the
\* key's edge positions inside the bucket: when the artifact stores v for the
\* key in that way, the lookup returns v.
C1_RoundTrip ==
    (call.fn \in ByteArrayLookups /\ BucketSize(st, BucketOf(st, CallSignature)) > 0)
        => U64(ret) = ValueOf(st, CallSignature)

\* a value that straddles two words of the array has been looked up
C1_Witness ==
    /\ call.fn \in ByteArrayLookups
    /\ BucketSize(st, BucketOf(st, CallSignature)) > 0
    /\ U64(ret) = ValueOf(st, CallSignature)
    /\ U64(ret) # 0
    /\ \E i \in DOMAIN EdgePositions(st, CallSignature) :
          LET p == EdgePositions(st, CallSignature)[i] * st.width
          IN p \div WordBits # (p + st.width - 1) \div WordBits

-----------------------------------------------------------------------------
(* Minimal perfect hash *)

Uint64Lookups == {"get_uint64_t", "sf3_get_uint64_t", "sf4_get_uint64_t",
                  "mph_get_uint64_t", "csf3_get_uint64_t"}

\* the bytes of the pending call's key
CallKey == IF call.fn \in Uint64Lookups THEN KeyBytes(call.k64) ELSE call.key

MphLookups == {"mph_get_byte_array", "mph_get_uint64_t"}

\* C2: over the keys of the key set of a well-formed MPH artifact, the
\* results of mph_get_byte_array are pairwise distinct and form exactly
\* {0, ..., |K|-1}: the result of a lookup of a key of K is in that range,
\* no other key of K has it, and every number of the range is some key's.
C2_MinimalPerfect ==
    (call.fn = "mph_get_byte_array" /\ call.key \in keys)
        => /\ ret \in 0 .. Cardinality(keys) - 1
           /\ \A k \in keys \ {call.key} : mph_get_byte_array(st, k, Len(k)) # ret
           /\ { mph_get_byte_array(st, k, Len(k)) : k \in keys }
                  = 0 .. Cardinality(keys) - 1

\* a key that is neither first nor alone in its bucket has been looked up in
\* an artifact of several buckets, and a hinge of the artifact holds 2
C2_Witness ==
    /\ call.fn = "mph_get_byte_array" /\ call.key \in keys
    /\ Cardinality(keys) = MaxMphKeys
    /\ ret > U64(And(st.edge_offset_and_seed[
                         MulHigh(CallSignature[0] \div 2, st.multiplier)], OFFSET_MASK))
    /\ ret < Cardinality(keys) - 1
    /\ \E x \in 0 .. PairsPerWord - 1 : get_2bit_value(st.array, x) = 2

\* the vertices of the bucket of the pending MPH call
MphBucket == MulHigh(CallSignature[0] \div 2, st.multiplier)
MphVertices ==
    vertex_offset(st.edge_offset_and_seed[MphBucket + 1])
        - vertex_offset(st.edge_offset_and_seed[MphBucket])

\* C3: for a well-formed MPH artifact over n keys, mph_get_byte_array and
\* mph_get_uint64_t return a value in [0, n) for every key, member of the
\* key set or not. Stated here for the keys whose bucket has vertices: the
\* lookup of a key of an empty bucket takes the leading zeros of 0, and the
\* violation does not depend on what that yields.
C3_InRange ==
    (call.fn \in MphLookups /\ MphVertices > 0) => (0 <= ret /\ ret < st.size)

-----------------------------------------------------------------------------
(* Compressed static function and its decoder *)

CsfLookups == {"csf3_get_byte_array", "csf3_get_uint64_t"}

\* bucket of the pending CSF3 call: first bit, number of variables, seed
CsfBucket == MulHigh(CallSignature[0] \div 2, st.multiplier)
CsfStart(b) == st.offset_and_seed[b] % Pow2(WordBits - CsfSeedBits)
CsfVariables ==
    CsfStart(CsfBucket + 1) - CsfStart(CsfBucket) - st.global_max_codeword_length
CsfEdge ==
    csf3_signature_to_equation(CallSignature,
                               st.offset_and_seed[CsfBucket] - CsfStart(CsfBucket),
                               CsfVariables)

\* the XOR of the n-bit fields that start `skip' bits into the three windows
\* of the key, the window of endpoint e[i] starting at bit bucket start + e[i]
CsfStoredXor(skip, n) ==
    XorOver([i \in 0 .. 2 |->
                BitsValue(st.array, CsfStart(CsfBucket) + CsfEdge[i] + skip, n)], 3)

\* the symbol (1 .. number of symbols) whose codeword starts the w-bit value
\* x, 0 if there is none
PrefixSymbol(x) ==
    LET w == st.global_max_codeword_length
        S == { k \in 1 .. Len(built.code) :
                 x \div Pow2(w - built.code[k]) = Codeword(built.code, k) }
    IN IF S = {} THEN 0 ELSE CHOOSE k \in S : TRUE

\* every entry of last_codeword_plus_one is the number the data model
\* defines: the last one, 2^w for a complete code, fits the word
LastEntryFits ==
    (Codeword(built.code, Len(built.code)) + 1)
        * Pow2(st.global_max_codeword_length - built.code[Len(built.code)]) < WordMod

C5_EscapeValue ==
    (call.fn \in CsfLookups /\ CsfVariables > 0 /\ built.escape # 0
       /\ built.counts = "upto_current" /\ LastEntryFits
       /\ decode(st, CsfStoredXor(0, st.global_max_codeword_length)) = WordMask)
        => U64(ret) = CsfStoredXor(st.global_max_codeword_length - st.escape_length
                                       - st.escaped_symbol_length,
                                   st.escaped_symbol_length)

\* decode has returned for a value that starts with a codeword
DecodedCodeword ==
    dec.pc = "done" /\ LastEntryFits /\ PrefixSymbol(dec.value) # 0

\* C6 as the specification states it: with how_many_up_to_block[i] the
\* number of symbols whose codeword is no longer than tier i-1's, decode of a
\* w-bit value that starts with the codeword c_i returns the symbol s_i.
C6_DecodeAsStated ==
    (DecodedCodeword /\ built.counts = "upto_previous")
        => dec.out = st.symbol[PrefixSymbol(dec.value) - 1]

\* C6, amended: for every canonical prefix-free code whose tables are filled
\* with how_many_up_to_block[i] the number of symbols whose codeword is no
\* longer than tier i's (and whose last_codeword_plus_one entries fit the
\* word), decode of a w-bit value that starts with the codeword c_i, whatever
\* its low bits, stops inside the table and returns the symbol s_i.
C6_Decode ==
    (built.counts = "upto_current" /\ LastEntryFits /\ PrefixSymbol(dec.value) # 0)
        => /\ dec.pc # "outside"
           /\ dec.pc = "done" => dec.out = st.symbol[PrefixSymbol(dec.value) - 1]

\* decode has returned the symbol of a codeword of the last of three tiers
\* for a value whose low bits are not all zero
C6_Witness ==
    /\ DecodedCodeword /\ built.counts = "upto_current"
    /\ dec.curr = 2 /\ Length(st.last_codeword_plus_one) = 3
    /\ dec.out = st.symbol[PrefixSymbol(dec.value) - 1]
    /\ dec.value % Pow2(st.shift[dec.curr]) # 0

\* C7: decode never reads last_codeword_plus_one, shift or
\* how_many_up_to_block at a tier index >= L, for any w-bit value and any w
\* up to the word size. Stated for the decoders of complete codes.
C7_ScanInTable ==
    (Complete(built.code) /\ built.counts = "upto_current") => dec.pc # "outside"

-----------------------------------------------------------------------------
(* Equivalent lookups *)

SignatureLookups == {"sf3_get_signature", "sf4_get_signature"}

\* C8: for every SF3 and SF4 structure and every key, the signature lookup
\* on sig returns what the byte-array lookup returns on the key, when sig is
\* the four-lane spooky_short hash of the key under the global seed.
C8_SignatureLookup ==
    call.fn \in SignatureLookups
        => \A k \in ByteKeys :
              spooky_short(k, Len(k), st.global_seed) = call.sig
                  => ret = IF call.fn = "sf3_get_signature"
                           THEN sf3_get_byte_array(st, k, Len(k))
                           ELSE sf4_get_byte_array(st, k, Len(k))

\* the signature of a key has been looked up in a bucket that is not the
\* first, with a result that is not 0
C8_Witness ==
    /\ call.fn = "sf3_get_signature"
    /\ \E k \in ByteKeys :
          /\ spooky_short(k, Len(k), st.global_seed) = call.sig
          /\ ret = sf3_get_byte_array(st, k, Len(k))
    /\ BucketOf(st, call.sig) > 0
    /\ BucketSize(st, BucketOf(st, call.sig)) > 0
    /\ ret # 0

\* the 8 bytes of k, low byte first
LittleEndian(k) == [i \in 1 .. 8 |-> (k \div Pow2(ByteBits * (i - 1))) % Pow2(ByteBits)]

ByteArrayLookup(fn, k) ==
    CASE fn = "get_uint64_t" -> get_byte_array(st, k, 8)
      [] fn = "sf3_get_uint64_t" -> sf3_get_byte_array(st, k, 8)
      [] fn = "sf4_get_uint64_t" -> sf4_get_byte_array(st, k, 8)
      [] fn = "mph_get_uint64_t" -> mph_get_byte_array(st, k, 8)
      [] fn = "csf3_get_uint64_t" -> csf3_get_byte_array(st, k, 8)

SfLookups == {"get_byte_array", "get_uint64_t"}

-----------------------------------------------------------------------------
(* SF3: the absent bucket *)

Sf3Lookups == {"sf3_get_byte_array", "sf3_get_uint64_t", "sf3_get_signature"}

\* C11: when the bucket the multiplier selects has num_variables = 0,
\* sf3_get_byte_array, sf3_get_uint64_t and sf3_get_signature return -1
\* (absent bucket), as the SF lookups do.
C11_AbsentBucket ==
    (call.fn \in Sf3Lookups /\ BucketSize(st, BucketOf(st, CallSignature)) = 0)
        => ret = -1

-----------------------------------------------------------------------------
(* Multiplier discipline *)

MultiplierLookups ==
    {"sf3_get_byte_array", "sf3_get_uint64_t", "sf3_get_signature",
     "sf4_get_byte_array", "sf4_get_uint64_t", "sf4_get_signature",
     "mph_get_byte_array", "mph_get_uint64_t",
     "csf3_get_byte_array", "csf3_get_uint64_t"}

\* the table the bucket indexes, and the bucket count B
BucketTable == IF st.kind = "mph" THEN st.edge_offset_and_seed ELSE st.offset_and_seed
BucketCount == Length(BucketTable) - 1

\* the bucket counts whose buckets fit the `int' the lookups hold them in
BucketCounts == 1 .. Pow2(IntBits - 1) - 1

\* const int bucket = ((__uint128_t)(signature[0] >> 1) * multiplier) >> 64
MultiplierBucket(h0, multiplier) == ToInt(MulHigh(Shr(h0, 1), multiplier))

\* C12: multiplier bucket selection is in range.  For the first signature
\* lane h0 of every lookup under the multiplier discipline, the bucket
\* ((h0 >> 1) * multiplier) >> 64 with multiplier = 2 * B lies in [0, B), for
\* the bucket count B of the loaded structure and for every other bucket
\* count, so the reads of entries bucket and bucket + 1 stay inside the
\* table of B + 1 entries.
C12_BucketInRange ==
    (call.fn \in MultiplierLookups /\ st.multiplier = 2 * BucketCount)
        => With(CallSignature[0], LAMBDA h0 :
             /\ MultiplierBucket(h0, st.multiplier) \in 0 .. BucketCount - 1
             /\ MultiplierBucket(h0, st.multiplier) \in DOMAIN BucketTable
             /\ MultiplierBucket(h0, st.multiplier) + 1 \in DOMAIN BucketTable
             /\ \A B \in BucketCounts : MultiplierBucket(h0, 2 * B) \in 0 .. B - 1)

\* the largest first lane has been looked up and has selected the last bucket
C12_Witness ==
    /\ call.fn \in MultiplierLookups /\ st.multiplier = 2 * BucketCount
    /\ With(CallSignature[0], LAMBDA h0 :
           h0 = WordMask /\ MultiplierBucket(h0, st.multiplier) = BucketCount - 1)

-----------------------------------------------------------------------------
(* Loading *)

\* the stream ended before the loader had read every field it asked for
Truncated == fd.have < fd.asked

\* C13: loading a truncated stream fails.  When the stream given to
\* load_sf, load_mph or load_csf ends before all header fields and the
\* arrays announced by its length fields have been read, the loader returns
\* no structure that can be queried.
C13_TruncatedLoadFails == Truncated => Unloaded

-----------------------------------------------------------------------------
(* Concurrent readers.  A reader thread runs sf3_get_byte_array or
   mph_get_byte_array on the shared structure one memory read at a time, in
   the order of the code: each step reads one field or one array element of
   the structure into the thread's own view, and the thread computes on its
   view only.  The signature and the positions of the edge are locals of the
   lookup, computed once. *)

\* thread t looks up one of the keys 0 .. t-1
ReaderKeys(t) == 0 .. t - 1
NoRead == <<"none", 0>>

\* the shared memory at an address <<field, index>>
Fetch(a) ==
    CASE a[1] = "global_seed" -> st.global_seed
      [] a[1] = "multiplier" -> st.multiplier
      [] a[1] = "width" -> st.width
      [] a[1] = "offset_and_seed" -> Rd(st.offset_and_seed, a[2])
      [] a[1] = "edge_offset_and_seed" -> Rd(st.edge_offset_and_seed, a[2])
      [] a[1] = "array" -> Rd(st.array, a[2])

\* the view of a thread after it has read x at address a
Keep(view, a, x) ==
    CASE a[1] = "global_seed" -> [view EXCEPT !.global_seed = x]
      [] a[1] = "multiplier" -> [view EXCEPT !.multiplier = x]
      [] a[1] = "width" -> [view EXCEPT !.width = x]
      [] a[1] = "offset_and_seed" ->
             [view EXCEPT !.offset_and_seed = (a[2] :> x) @@ @]
      [] a[1] = "edge_offset_and_seed" ->
             [view EXCEPT !.edge_offset_and_seed = (a[2] :> x) @@ @]
      [] a[1] = "array" -> [view EXCEPT !.array = (a[2] :> x) @@ @]

\* sf3.c 50-63: the unit positions e[i] + bucket_offset handed to get_value
Sf3Positions(view, signature) ==
    With(MultiplierBucket(signature[0], view.multiplier), LAMBDA bucket :
    With(Rd(view.offset_and_seed, bucket), LAMBDA offset_seed :
    With(And(offset_seed, OFFSET_MASK), LAMBDA bucket_offset :
    With(ToInt(Sub(And(Rd(view.offset_and_seed, bucket + 1), OFFSET_MASK), bucket_offset)),
         LAMBDA num_variables :
    With(sf3_signature_to_equation(signature, And(offset_seed, Not(OFFSET_MASK)),
             num_variables),
         LAMBDA e :
       <<U64(e[0] + bucket_offset), U64(e[1] + bucket_offset),
         U64(e[2] + bucket_offset)>>)))))

\* sf3.c 41-48: the words of the array that get_value reads
GetValueWords(pos, width) ==
    With(Mul(pos, width), LAMBDA p :
    With(WordBits - width, LAMBDA l :
    With(ToInt(p \div WordBits), LAMBDA start_word :
    With(ToInt(p % WordBits), LAMBDA start_bit :
       IF start_bit <= l THEN <<start_word>> ELSE <<start_word, start_word + 1>>))))

\* the n-th read of sf3_get_byte_array, n = 0, 1, ...
Sf3Reads(r) ==
    IF r.n = 0 THEN <<"global_seed", 0>>
    ELSE IF r.n = 1 THEN <<"multiplier", 0>>
    ELSE IF r.n \in {2, 3}
    THEN <<"offset_and_seed",
           MultiplierBucket(r.signature[0], r.view.multiplier) + r.n - 2>>
    ELSE IF r.n = 4 THEN <<"width", 0>>
    ELSE With(GetValueWords(r.at[1], r.view.width) \o GetValueWords(r.at[2], r.view.width)
                  \o GetValueWords(r.at[3], r.view.width),
              LAMBDA words :
            IF r.n - 4 <= Len(words) THEN <<"array", words[r.n - 4]>> ELSE NoRead)

\* mph.c 86-93: the first vertex of the bucket and the three vertices of the edge
MphVertexes(view, signature) ==
    With(MultiplierBucket(signature[0], view.multiplier), LAMBDA bucket :
    With(Rd(view.edge_offset_and_seed, bucket), LAMBDA edge_offset_seed :
    With(vertex_offset(edge_offset_seed), LAMBDA bucket_offset :
    With(ToInt(Sub(vertex_offset(Rd(view.edge_offset_and_seed, bucket + 1)),
                   bucket_offset)),
         LAMBDA num_variables :
    With(mph_signature_to_equation(signature, And(edge_offset_seed, Not(OFFSET_MASK)),
             num_variables),
         LAMBDA e :
       <<bucket_offset, U64(e[0] + bucket_offset), U64(e[1] + bucket_offset),
         U64(e[2] + bucket_offset)>>)))))

\* mph.c 81-84: the word that get_2bit_value reads
Get2bitWord(pos) == Mul(pos, 2) \div WordBits

\* mph.c 49-61: the words that count_nonzero_pairs reads
CountWords(start, end) ==
    With(ToInt(start \div PairsPerWord), LAMBDA block :
    With(ToInt(end \div PairsPerWord), LAMBDA end_block :
    With(IF start % PairsPerWord # 0 THEN block + 1 ELSE block, LAMBDA block1 :
       IF block = end_block THEN <<block>>
       ELSE (IF start % PairsPerWord # 0 THEN <<block>> ELSE <<>>)
            \o [i \in 1 .. end_block - block1 |-> block1 + i - 1]
            \o (IF end % PairsPerWord # 0
                THEN <<IF block1 < end_block THEN end_block ELSE block1>>
                ELSE <<>>))))

\* the n-th read of mph_get_byte_array
MphReads(r) ==
    IF r.n = 0 THEN <<"global_seed", 0>>
    ELSE IF r.n = 1 THEN <<"multiplier", 0>>
    ELSE IF r.n \in {2, 3}
    THEN <<"edge_offset_and_seed",
           MultiplierBucket(r.signature[0], r.view.multiplier) + r.n - 2>>
    ELSE IF r.n \in 4 .. 6 THEN <<"array", Get2bitWord(r.at[r.n - 2])>>
    ELSE With((get_2bit_value(r.view.array, r.at[2]) + get_2bit_value(r.view.array, r.at[3])
                  + get_2bit_value(r.view.array, r.at[4])) % 3,
              LAMBDA side :
         With(CountWords(r.at[1], r.at[2 + side]), LAMBDA words :
            IF r.n - 6 <= Len(words) THEN <<"array", words[r.n - 6]>> ELSE NoRead))

\* the next read of a thread with locals r
ReaderReads(r) == IF r.view.kind = "sf3" THEN Sf3Reads(r) ELSE MphReads(r)

\* the locals of a thread after its n-th read has left it the view v
ReaderNext(r, v) ==
    [r EXCEPT !.view = v, !.n = @ + 1,
              !.signature = IF r.n = 0 THEN spooky_short(r.key, Len(r.key), v.global_seed)
                            ELSE @,
              !.at = IF r.n # 3 THEN @
                     ELSE IF v.kind = "sf3" THEN Sf3Positions(v, r.signature)
                     ELSE MphVertexes(v, r.signature)]

\* the lookup a thread runs, on the structure s
ReaderLookup(s, key) ==
    IF s.kind = "sf3" THEN sf3_get_byte_array(s, key, Len(key))
    ELSE mph_get_byte_array(s, key, Len(key))

\* thread t calls the lookup of its structure's kind
ReaderCall(t) ==
    /\ thr[t].pc = "idle"
    /\ st.kind \in {"sf3", "mph"}
    /\ \E k \in ReaderKeys(t) :
          thr' = [thr EXCEPT ![t] = [IdleReader EXCEPT !.pc = "run", !.key = KeyBytes(k),
                                        !.view = [Blank EXCEPT !.kind = st.kind]]]
    /\ UNCHANGED <<st, keys, built, env, call, ret, dec, fd, app>>

\* a read that clears the array word it has read
ReaderReadClearing(t) ==
    /\ thr[t].pc = "run"
    /\ LET a == ReaderReads(thr[t])
       IN /\ a # NoRead
          /\ thr' = [thr EXCEPT ![t] = ReaderNext(@, Keep(thr[t].view, a, Fetch(a)))]
          /\ st' = IF a[1] = "array" /\ a[2] \in DOMAIN st.array
                   THEN [st EXCEPT !.array[a[2]] = 0] ELSE st
    /\ UNCHANGED <<keys, built, env, call, ret, dec, fd, app>>

\* thread t reads the next field or array element the lookup needs
ReaderRead(t) ==
    /\ thr[t].pc = "run"
    /\ LET a == ReaderReads(thr[t])
       IN /\ a # NoRead
          /\ thr' = [thr EXCEPT ![t] = ReaderNext(@, Keep(thr[t].view, a, Fetch(a)))]
    /\ UNCHANGED <<st, keys, built, env, call, ret, dec, fd, app>>

\* thread t has read all it needs: the lookup returns
ReaderReturn(t) ==
    /\ thr[t].pc = "run"
    /\ ReaderReads(thr[t]) = NoRead
    /\ thr' = [thr EXCEPT ![t].pc = "done",
                          ![t].result = ReaderLookup(thr[t].view, thr[t].key)]
    /\ UNCHANGED <<st, keys, built, env, call, ret, dec, fd, app>>

\* the caller of thread t takes the result
ReaderTake(t) ==
    /\ thr[t].pc = "done"
    /\ thr' = [thr EXCEPT ![t] = IdleReader]
    /\ UNCHANGED <<st, keys, built, env, call, ret, dec, fd, app>>

Reader_call == \E t \in Readers : ReaderCall(t)
Reader_read == \E t \in Readers : ReaderRead(t)
Reader_return == \E t \in Readers : ReaderReturn(t)
Reader_take == \E t \in Readers : ReaderTake(t)

NextReaders ==
    \/ Load_sf \/ Load_mph
    \/ Reader_call \/ Reader_read \/ Reader_return \/ Reader_take
SpecReaders == Init /\ [][NextReaders]_vars

\* C14: concurrent readers.  Threads that run lookups on the same loaded
\* structure, interleaved in any order at the granularity of single memory
\* reads, each obtain the result of a single-threaded lookup of their key,
\* and no step of a lookup changes a field or an array of the structure.
C14_ConcurrentReaders ==
    /\ [](\A t \in Readers :
             thr[t].pc = "done" => thr[t].result = ReaderLookup(st, thr[t].key))
    /\ [][Unloaded \/ st' = st]_vars

\* one thread has its result while another is in the middle of its array reads
C14_Witness ==
    \E t, u \in Readers :
        /\ t # u
        /\ thr[t].pc = "done" /\ thr[t].result = ReaderLookup(st, thr[t].key)
        /\ thr[t].result > 0
        /\ thr[u].pc = "run" /\ thr[u].n > 5 /\ thr[u].key # thr[t].key

-----------------------------------------------------------------------------
(* Edge derivation *)

\* lanes at the ends of the range: none, the lowest, the highest and all bits
\* under the mask, and all bits of the word
EndLanes(mask) == {0, 1, mask - 1, mask, WordMask - 1, WordMask}

\* C15: edge endpoints are in range without overflow.  For every
\* num_variables from 1 that fits an int, signature_to_equation computes
\* shift = clz(num_variables) >= 1, the product
\* (hash[i] & ((1 << shift) - 1)) * num_variables fits the word, and every
\* endpoint e[i] (i < 3, or i < 4 for SF4) is in [0, num_variables); the
\* same holds of the product and of the endpoint for the lanes at the ends
\* of the range.
C15_EndpointsInRange ==
    app.fn \in EquationVariants
        => With(app.in[3], LAMBDA num_variables :
           With(clzll(num_variables), LAMBDA shift :
           With(Sub(Shl(1, shift), 1), LAMBDA mask :
           With(spooky_short_rehash(app.in[1], app.in[2]), LAMBDA hash :
              /\ shift >= 1
              /\ DOMAIN app.out = (IF app.fn = "sf4" THEN 0 .. 3 ELSE 0 .. 2)
              /\ \A i \in DOMAIN app.out :
                    /\ Product(And(hash[i], mask), num_variables)[1] = 0
                    /\ 0 <= app.out[i] /\ app.out[i] < num_variables
              /\ \A h \in EndLanes(mask) :
                    /\ Product(And(h, mask), num_variables)[1] = 0
                    /\ Shr(Mul(And(h, mask), num_variables), shift) < num_variables))))

\* the largest number of variables has given an SF4 edge whose endpoints
\* are in the upper half of the range
C15_Witness ==
    /\ app.fn = "sf4" /\ app.in[3] = Pow2(IntBits - 1) - 1
    /\ \A i \in 0 .. 3 : app.out[i] >= Pow2(IntBits - 2)


\* the signatures that agree with sig on lanes 0, 1 and 2
SameTriple(sig) == { [sig EXCEPT ![3] = x] : x \in {0, 1, Not(sig[3]), WordMask} }

\* the signature lookup of the loaded structure's kind
GetSignature(s, sig) ==
    IF s.kind = "sf4" THEN sf4_get_signature(s, sig) ELSE sf3_get_signature(s, sig)

\* C16: edge derivation depends only on lanes 0..2 of the signature, the
\* seed and num_variables.  A signature that agrees with the looked-up one
\* on lanes 0, 1 and 2 and differs in lane 3 gives the same
\* spooky_short_rehash output and the same endpoints from
\* signature_to_equation, and therefore the same result from
\* sf3_get_signature and sf4_get_signature; invoking the lookup again on the
\* same signature returns the same result.
C16_ThreeLanes ==
    call.fn \in SignatureLookups
        => With(BucketOf(st, call.sig), LAMBDA b :
           \A other \in SameTriple(call.sig) :
              /\ spooky_short_rehash(other, BucketSeed(st, b))
                    = spooky_short_rehash(call.sig, BucketSeed(st, b))
              /\ \A num_variables \in {BucketSize(st, b), MaxVars, Pow2(IntBits - 1) - 1} :
                    SignatureToEquation(st.kind, other, BucketSeed(st, b), num_variables)
                      = SignatureToEquation(st.kind, call.sig, BucketSeed(st, b),
                                            num_variables)
              /\ GetSignature(st, other) = ret
              /\ GetSignature(st, call.sig) = ret)

\* a signature lookup in a bucket that is not empty has returned a value
\* other than 0, and the signature with the complemented fourth lane is
\* another signature
C16_Witness ==
    /\ call.fn \in SignatureLookups
    /\ BucketSize(st, BucketOf(st, call.sig)) > 0
    /\ ret # 0
    /\ OtherLane3(call.sig) # call.sig
    /\ GetSignature(st, OtherLane3(call.sig)) = ret

-----------------------------------------------------------------------------
(* The bit accessor *)

\* the array, the bit position and the width of the pending accessor call
AppArray == app.in[1]
AppWidth == app.in[3]
AppBitPos == IF app.fn = "get_value" THEN app.in[2] * app.in[3] ELSE app.in[2]

\* C17: bit accessor correctness.  For every width from 1 to the word size
\* and every bit position pos with pos + width within the array, get_value
\* returns the integer whose bit j (0 <= j < width) is bit pos + j of the
\* array and whose bits from width up are zero, whether the value lies in
\* one word or straddles two adjacent words.
C17_BitAccessor ==
    (app.fn \in GetValueVariants /\ AppBitPos + AppWidth <= WordBits * Length(AppArray))
        => /\ app.out = BitsValue(AppArray, AppBitPos, AppWidth)
           /\ \A j \in 0 .. WordBits - 1 :
                 (app.out \div Pow2(j)) % 2
                     = (IF j < AppWidth THEN Bit(AppArray, AppBitPos + j) ELSE 0)

\* a value of the full width that straddles two words and takes set bits
\* from both has been read
C17_Witness ==
    /\ app.fn \in GetValueVariants /\ AppBitPos + AppWidth <= WordBits * Length(AppArray)
    /\ AppWidth = WordBits
    /\ AppBitPos % WordBits # 0
    /\ app.out % Pow2(WordBits - (AppBitPos % WordBits)) # 0
    /\ app.out \div Pow2(WordBits - (AppBitPos % WordBits)) # 0
    /\ app.out = BitsValue(AppArray, AppBitPos, AppWidth)


\* the array with only the word that holds bit pos and the word after it
TwoWords(array, pos) ==
    [i \in {pos \div WordBits, pos \div WordBits + 1} \cap DOMAIN array |-> array[i]]

\* the array with every other word complemented
OtherWordsChanged(array, pos) ==
    [i \in DOMAIN array |->
        IF i \in {pos \div WordBits, pos \div WordBits + 1} THEN array[i] ELSE Not(array[i])]

\* C18: bounded reads of the bit accessor.  For every width from 1 to the
\* word size and every bit position pos, get_value reads word pos div 64
\* and at most word pos div 64 + 1, never a word further on: it returns the
\* same value when no other word of the array can be read, and when every
\* other word holds something else.
C18_BoundedReads ==
    app.fn \in GetValueVariants
        => /\ GetValue(app.fn, TwoWords(AppArray, AppBitPos), app.in[2], AppWidth) = app.out
           /\ GetValue(app.fn, OtherWordsChanged(AppArray, AppBitPos), app.in[2], AppWidth)
                 = app.out

\* a value that straddles the first two words of an array of three has been
\* read, with bits set in its part from the second word
C18_Witness ==
    /\ app.fn \in GetValueVariants
    /\ Length(AppArray) = 3
    /\ AppBitPos \div WordBits = 0 /\ (AppBitPos + AppWidth - 1) \div WordBits = 1
    /\ app.out \div Pow2(WordBits - AppBitPos) # 0
    /\ GetValue(app.fn, TwoWords(AppArray, AppBitPos), app.in[2], AppWidth) = app.out

-----------------------------------------------------------------------------
(* Population count of 2-bit pairs *)

\* C19: population count correctness.  For all pair indices
\* 0 <= start <= end <= 32 * |array|, count_nonzero_pairs(start, end, array)
\* is the number of indices p with start <= p < end for which
\* get_2bit_value(array, p) is not zero (the pair p being bits 2p and 2p + 1
\* of the array), when both ends are in one word and when they are in
\* different words, at word boundaries and inside words.
C19_CountNonzeroPairs ==
    app.fn = "count_nonzero_pairs"
        => /\ app.out = Cardinality({ p \in app.in[1] .. app.in[2] - 1 :
                                        get_2bit_value(app.in[3], p) # 0 })
           /\ \A p \in app.in[1] .. app.in[2] - 1 :
                 get_2bit_value(app.in[3], p)
                     = Bit(app.in[3], 2 * p) + 2 * Bit(app.in[3], 2 * p + 1)

\* a range that starts and ends inside words, with a whole word in between,
\* and that holds both zero and non-zero pairs has been counted
C19_Witness ==
    /\ app.fn = "count_nonzero_pairs"
    /\ app.in[1] % PairsPerWord # 0 /\ app.in[2] % PairsPerWord # 0
    /\ app.in[2] \div PairsPerWord = app.in[1] \div PairsPerWord + 2
    /\ app.out > 0 /\ app.out < app.in[2] - app.in[1]
    /\ app.out = Cardinality({ p \in app.in[1] .. app.in[2] - 1 :
                                 get_2bit_value(app.in[3], p) # 0 })

-----------------------------------------------------------------------------
(* Variables of a bucket of a minimal perfect hash *)

\* the ranks whose product with C_TIMES_256 fits a word
RankFits(x) == x * C_TIMES_256 <= WordMask

\* C20: for MPH, a bucket of base rank r holding c keys has
\* num_variables = vertex_offset(r + c) - vertex_offset(r) equal to
\* floor(c * 281 / 256) or that plus 1 (ranks whose product with 281 fits a
\* word): at least c, so at least 1 in every non-empty bucket and at least 3
\* in every bucket of 3 or more keys; 1 or 2 for one key, 2 or 3 for two.
C20_VariablesOfBucket ==
    (app.fn = "num_variables" /\ RankFits(app.in[1] + app.in[2]))
        => /\ app.out >= (app.in[2] * C_TIMES_256) \div 256
           /\ app.out <= (app.in[2] * C_TIMES_256) \div 256 + 1
           /\ app.out >= app.in[2]
           /\ app.in[2] >= 3 => app.out >= 3
           /\ app.in[2] = 1 => app.out \in {1, 2}
           /\ app.in[2] = 2 => app.out \in {2, 3}

\* a bucket of one key, after other keys and under a seed, with one variable
C20_Witness ==
    /\ app.fn = "num_variables"
    /\ app.in[1] > 0 /\ app.in[2] = 1 /\ app.in[3] # 0 /\ app.in[4] # app.in[3]
    /\ RankFits(app.in[1] + app.in[2])
    /\ app.out = 1

\* C20 as stated: every non-empty bucket has at least 3 variables, for all
\* base ranks r and key counts c >= 1.
C20_AtLeastThree ==
    (app.fn = "num_variables" /\ app.in[2] >= 1) => app.out >= 3


\* the fraction of x * C_TIMES_256 / 256, in 256ths
Frac256(x) == (x * C_TIMES_256) % 256

\* c * 281 / 256 rounded to the nearest integer
RoundOfCount(c) == (2 * c * C_TIMES_256 + 256) \div 512

\* C21: for MPH, the number of variables of a bucket of base rank r and key
\* count c, vertex_offset(r + c) - vertex_offset(r) as the query computes it,
\* is floor(c * 281 / 256) plus a carry that depends on r: 1 when the
\* fractions of r * 281 / 256 and c * 281 / 256 add up to 1 or more, else 0
\* (ranks whose product with 281 fits a word); the seeds play no part.
C21_VariablesFromRankAndCount ==
    (app.fn = "num_variables" /\ RankFits(app.in[1] + app.in[2]))
        => app.out = (app.in[2] * C_TIMES_256) \div 256
                       + (IF Frac256(app.in[1]) + Frac256(app.in[2]) >= 256
                          THEN 1 ELSE 0)

\* a bucket whose number of variables is not the rounded product: the carry
\* of its base rank makes it one more
C21_Witness ==
    /\ app.fn = "num_variables"
    /\ RankFits(app.in[1] + app.in[2])
    /\ app.in[2] >= 1
    /\ Frac256(app.in[1]) + Frac256(app.in[2]) >= 256
    /\ app.out = RoundOfCount(app.in[2]) + 1

\* C21 as stated: the number of variables equals round(c * 281 / 256),
\* whatever the base rank.
C21_RoundOfCount ==
    app.fn = "num_variables" => app.out = RoundOfCount(app.in[2])

-----------------------------------------------------------------------------
(* The bytes the hash reads *)

\* the buffer that holds the message followed by 16 bytes of value pad
Padded(message, pad) ==
    [i \in 1 .. Len(message) + 16 |-> IF i <= Len(message) THEN message[i] ELSE pad]

\* the message with its byte of index k (from 0) changed
OtherByte(message, k) ==
    [message EXCEPT ![k + 1] = (message[k + 1] + 1) % Pow2(ByteBits)]

\* C24: for every message length L >= 0, spooky_short reads only message
\* bytes of index in [0, L) and reads each of them exactly once over the
\* 32-byte block loop, the 16-byte absorb and the tail switch: the indices it
\* reads are L in number and are exactly 0 .. L - 1, the bytes that follow the
\* message leave the result unchanged, and a change of any one byte of the
\* message changes the result.
C24_ExactReads ==
    app.fn = "spooky_short"
        => /\ Len(app.out.reads) = app.in[2]
           /\ { app.out.reads[i] : i \in 1 .. Len(app.out.reads) } = 0 .. app.in[2] - 1
           /\ \A pad \in Bytes :
                 spooky_short(Padded(app.in[1], pad), app.in[2], app.in[3]) = app.out.tuple
           /\ \A k \in 0 .. app.in[2] - 1 :
                 spooky_short(OtherByte(app.in[1], k), app.in[2], app.in[3]) # app.out.tuple

\* a message with whole blocks, the 16-byte absorb and a tail of 9 or more
\* bytes has been hashed
C24_Witness ==
    /\ app.fn = "spooky_short"
    /\ app.in[2] > 32 /\ app.in[2] % 32 >= 25
    /\ Len(app.out.reads) = app.in[2]
    /\ app.out.reads[app.in[2]] = BlocksEnd(app.in[2]) + 23

-----------------------------------------------------------------------------
(* The build for bytes *)

Sf8Lookups == {"sf3_get_byte_array_SF_8", "sf3_get_uint64_t_SF_8", "sf3_get_signature_SF_8"}

\* the signature of the pending call of the SF_8 build
Sf8Signature ==
    CASE call.fn = "sf3_get_signature_SF_8" -> call.sig
      [] call.fn = "sf3_get_uint64_t_SF_8" ->
             spooky_short(KeyBytes(call.k64), 8, st.global_seed)
      [] OTHER -> spooky_short(call.key, Len(call.key), st.global_seed)

\* what the general build returns for the pending call of the SF_8 build
GeneralResult ==
    CASE call.fn = "sf3_get_signature_SF_8" -> sf3_get_signature(st, call.sig)
      [] call.fn = "sf3_get_uint64_t_SF_8" -> sf3_get_uint64_t(st, call.k64)
      [] OTHER -> sf3_get_byte_array(st, call.key, Len(call.key))

\* C22: on every SF3 structure whose width is a byte, and for every
\* signature, the SF_8 build (the array read through a byte pointer at
\* array + bucket_offset, result p[e0] ^ p[e1] ^ p[e2]) returns what the general
\* build returns (get_value(array, e[i] + bucket_offset, width) XORed over the
\* three endpoints), the words of the array being stored low byte first.
C22_ByteBuildAgrees ==
    call.fn \in Sf8Lookups => ret = GeneralResult

\* the SF_8 build has returned a non-zero value for a key of a non-empty
\* bucket that is not the first of the array: the byte pointer was moved
C22_Witness ==
    /\ call.fn \in Sf8Lookups
    /\ st.width = ByteBits
    /\ BucketSize(st, BucketOf(st, Sf8Signature)) > 0
    /\ ret # 0 /\ ret = GeneralResult
    /\ BucketStart(st, BucketOf(st, Sf8Signature)) > 0
    /\ \E i \in DOMAIN EdgePositions(st, Sf8Signature) :
          EdgePositions(st, Sf8Signature)[i] > BucketStart(st, BucketOf(st, Sf8Signature))

-----------------------------------------------------------------------------
(* The part of the array a lookup reads *)

\* sf.c 54-65: the positions get_byte_array hands to get_value, none for an
\* absent chunk
SfPositions(view, signature) ==
    With(ToInt(Shr(signature[0], view.chunk_shift)), LAMBDA chunk :
    With(Rd(view.offset_and_seed, chunk), LAMBDA offset_seed :
    With(And(offset_seed, OFFSET_MASK), LAMBDA chunk_offset :
    With(ToInt(Sub(And(Rd(view.offset_and_seed, chunk + 1), OFFSET_MASK), chunk_offset)),
         LAMBDA num_variables :
       IF num_variables = 0 THEN <<>>
       ELSE
    With(triple_to_equation(signature, And(offset_seed, Not(OFFSET_MASK)), num_variables),
         LAMBDA e :
       <<U64(e[0] + chunk_offset), U64(e[1] + chunk_offset),
         U64(e[2] + chunk_offset)>>)))))

\* sf4.c 51-61: the four positions sf4_get_byte_array hands to get_value
Sf4Positions(view, signature) ==
    With(MultiplierBucket(signature[0], view.multiplier), LAMBDA bucket :
    With(Rd(view.offset_and_seed, bucket), LAMBDA offset_seed :
    With(And(offset_seed, OFFSET_MASK), LAMBDA bucket_offset :
    With(ToInt(Sub(And(Rd(view.offset_and_seed, bucket + 1), OFFSET_MASK), bucket_offset)),
         LAMBDA num_variables :
    With(sf4_signature_to_equation(signature, And(offset_seed, Not(OFFSET_MASK)),
             num_variables),
         LAMBDA e :
       <<U64(e[0] + bucket_offset), U64(e[1] + bucket_offset),
         U64(e[2] + bucket_offset), U64(e[3] + bucket_offset)>>)))))

\* a CSF3 lookup whose number of variables leaves no slack of w bits
Csf3WindowsNoSlack(view, signature) ==
    With(MultiplierBucket(signature[0], view.multiplier), LAMBDA bucket :
    With(Rd(view.offset_and_seed, bucket), LAMBDA offset_seed :
    With(And(offset_seed, csf3_OFFSET_MASK), LAMBDA bucket_offset :
    With(ToInt(Sub(And(Rd(view.offset_and_seed, bucket + 1), csf3_OFFSET_MASK),
                   bucket_offset)),
         LAMBDA num_variables :
    With(csf3_signature_to_equation(signature, And(offset_seed, Not(csf3_OFFSET_MASK)),
             num_variables),
         LAMBDA e :
       <<U64(e[0] + bucket_offset), U64(e[1] + bucket_offset),
         U64(e[2] + bucket_offset)>>)))))

\* csf3.c 57-67: the first bits of the three w-bit windows that
\* csf3_get_byte_array hands to get_value before it decodes
Csf3Windows(view, signature) ==
    With(MultiplierBucket(signature[0], view.multiplier), LAMBDA bucket :
    With(Rd(view.offset_and_seed, bucket), LAMBDA offset_seed :
    With(And(offset_seed, csf3_OFFSET_MASK), LAMBDA bucket_offset :
    With(view.global_max_codeword_length, LAMBDA w :
    With(ToInt(Sub(Sub(And(Rd(view.offset_and_seed, bucket + 1), csf3_OFFSET_MASK),
             bucket_offset), U64(w))),
         LAMBDA num_variables :
    With(csf3_signature_to_equation(signature, And(offset_seed, Not(csf3_OFFSET_MASK)),
             num_variables),
         LAMBDA e :
       <<U64(e[0] + bucket_offset), U64(e[1] + bucket_offset),
         U64(e[2] + bucket_offset)>>))))))

SfChunkLookups == {"get_byte_array", "get_uint64_t"}
Sf4Lookups == {"sf4_get_byte_array", "sf4_get_uint64_t", "sf4_get_signature"}
ArrayLookups == SfChunkLookups \cup Sf3Lookups \cup Sf4Lookups \cup CsfLookups \cup MphLookups

Range(seq) == { seq[i] : i \in DOMAIN seq }

\* the units of the array whose value the pending call reads before it
\* returns or decodes: positions of width bits (SF, SF3, SF4), bits (CSF3),
\* pairs read and pairs counted (MPH)
UnitsRead(sig) ==
    CASE call.fn \in SfChunkLookups -> Range(SfPositions(st, sig))
      [] call.fn \in Sf3Lookups -> Range(Sf3Positions(st, sig))
      [] call.fn \in Sf4Lookups -> Range(Sf4Positions(st, sig))
      [] call.fn \in CsfLookups ->
             UNION { p .. p + st.global_max_codeword_length - 1 :
                       p \in Range(Csf3Windows(st, sig)) }
      [] OTHER ->
             With(MphVertexes(st, sig), LAMBDA at :
             With((get_2bit_value(st.array, at[2]) + get_2bit_value(st.array, at[3])
                      + get_2bit_value(st.array, at[4])) % 3,
                  LAMBDA side :
                {at[2], at[3], at[4]} \cup (at[1] .. at[2 + side] - 1)))

\* the selected bucket's own units, from the table of offsets
BucketUnits(sig) ==
    CASE call.fn \in CsfLookups ->
             With(MulHigh(sig[0] \div 2, st.multiplier), LAMBDA b :
                CsfStart(b) .. CsfStart(b + 1) - 1)
      [] call.fn \in MphLookups ->
             With(MulHigh(sig[0] \div 2, st.multiplier), LAMBDA b :
                vertex_offset(st.edge_offset_and_seed[b])
                    .. vertex_offset(st.edge_offset_and_seed[b + 1]) - 1)
      [] OTHER ->
             With(BucketOf(st, sig), LAMBDA b :
                BucketStart(st, b) .. BucketStart(st, b + 1) - 1)

\* the selected bucket has variables
BucketHasVariables(sig) ==
    IF call.fn \in CsfLookups
    THEN Cardinality(BucketUnits(sig)) > st.global_max_codeword_length
    ELSE BucketUnits(sig) # {}

\* the structure with every bit of the array outside the selected bucket
\* complemented; a unit has unit_bits bits
RECURSIVE OutsideMask(_, _, _)
OutsideMask(from, n, inside) ==
    IF n = 0 THEN 0
    ELSE (IF from \in inside THEN 0 ELSE 1) + 2 * OutsideMask(from + 1, n - 1, inside)

UnitBits == IF call.fn \in CsfLookups THEN 1 ELSE IF call.fn \in MphLookups THEN 2 ELSE st.width

OutsideChanged(units) ==
    With({ b \in 0 .. WordBits * Length(st.array) - 1 : b \div UnitBits \in units },
         LAMBDA inside :
       [st EXCEPT !.array = [j \in DOMAIN st.array |->
                                Xor(st.array[j], OutsideMask(j * WordBits, WordBits, inside))]])

\* the pending call made again, on the structure s
CalledOn(s) ==
    CASE call.fn = "get_byte_array" -> get_byte_array(s, call.key, Len(call.key))
      [] call.fn = "get_uint64_t" -> get_uint64_t(s, call.k64)
      [] call.fn = "sf3_get_byte_array" -> sf3_get_byte_array(s, call.key, Len(call.key))
      [] call.fn = "sf3_get_uint64_t" -> sf3_get_uint64_t(s, call.k64)
      [] call.fn = "sf3_get_signature" -> sf3_get_signature(s, call.sig)
      [] call.fn = "sf4_get_byte_array" -> sf4_get_byte_array(s, call.key, Len(call.key))
      [] call.fn = "sf4_get_uint64_t" -> sf4_get_uint64_t(s, call.k64)
      [] call.fn = "sf4_get_signature" -> sf4_get_signature(s, call.sig)
      [] call.fn = "mph_get_byte_array" -> mph_get_byte_array(s, call.key, Len(call.key))
      [] call.fn = "mph_get_uint64_t" -> mph_get_uint64_t(s, call.k64)
      [] call.fn = "csf3_get_byte_array" -> csf3_get_byte_array(s, call.key, Len(call.key))
      [] OTHER -> csf3_get_uint64_t(s, call.k64)

\* the pending call returns from its main path: a CSF3 lookup whose decode
\* is not the sentinel, any other lookup
MainPath(sig) ==
    call.fn \in CsfLookups
        => With(Csf3Windows(st, sig), LAMBDA at :
              decode(st, Xor(Xor(csf3_get_value(st.array, at[1], st.global_max_codeword_length),
                                 csf3_get_value(st.array, at[2], st.global_max_codeword_length)),
                             csf3_get_value(st.array, at[3], st.global_max_codeword_length)))
                  # WordMask)

\* C23: in the main path of every lookup on a well-formed artifact, for a
\* key whose bucket is not empty, every stored value that is read lies inside
\* that bucket: SF, SF3 and SF4 read positions in [bucket_offset, next_offset),
\* CSF3 reads w-bit windows that start at bucket_offset + e[i] and end at or
\* before next_offset, MPH reads pairs and counts pairs only in
\* [vertex_offset(bucket), vertex_offset(bucket + 1)).  The result of the
\* lookup is then the same when every bit outside the bucket is complemented.
C23_ReadsInBucket ==
    call.fn \in ArrayLookups
        => With(CallSignature, LAMBDA sig :
              BucketHasVariables(sig)
                  => /\ UnitsRead(sig) # {}
                     /\ UnitsRead(sig) \subseteq BucketUnits(sig)
                     /\ MainPath(sig) => CalledOn(OutsideChanged(BucketUnits(sig))) = ret)

\* a lookup has read, in its main path, the last unit of its bucket, which
\* is not the last unit of the array, and its result is not 0
C23_Witness ==
    /\ call.fn \in ArrayLookups
    /\ ret # 0
    /\ With(CallSignature, LAMBDA sig :
          /\ BucketHasVariables(sig)
          /\ MainPath(sig)
          /\ UnitsRead(sig) \subseteq BucketUnits(sig)
          /\ \E u \in UnitsRead(sig) :
                /\ u + 1 \notin BucketUnits(sig)
                /\ (u + 2) * UnitBits <= WordBits * Length(st.array))


-----------------------------------------------------------------------------
(* C25: what a CSF3 lookup reads and what load_csf has set *)

\* csf3.c: the members of csf that the pending lookup reads; escape_length
\* and escaped_symbol_length only when decode returned the sentinel
Csf3FieldsRead(sig) ==
    {"global_seed", "multiplier", "offset_and_seed", "global_max_codeword_length",
     "array", "last_codeword_plus_one", "shift", "symbol", "how_many_up_to_block"}
        \cup (IF MainPath(sig) THEN {} ELSE {"escape_length", "escaped_symbol_length"})

\* the values the artifact's builder meant for the members load_csf leaves out
BuiltEscapeLength == IF built.escape = 0 THEN 0 ELSE built.code[built.escape]
BuiltEscapedSymbolLength == IF built.escape = 0 THEN 0 ELSE EscapedBits

\* C25: every structure field that a CSF3 lookup reads (multiplier,
\* global_max_codeword_length, global_seed, offset_and_seed, array, the
\* decoding tables, symbol, escape_length and escaped_symbol_length) has been
\* set by load_csf from the artifact's byte stream before the first lookup.
C25_FieldsSetByLoad ==
    call.fn \in CsfLookups
        => With(CallSignature, LAMBDA sig :
              /\ Csf3FieldsRead(sig) \subseteq LoadCsfAssigns
              /\ st.multiplier = 2 * Buckets
              /\ ~MainPath(sig) => /\ st.escape_length = BuiltEscapeLength
                                   /\ st.escaped_symbol_length = BuiltEscapedSymbolLength)

=============================================================================
